---- MODULE Spec2Model ----
(***************************************************************************)
(* The LSIF upload endpoint, the durable job queue and the convert worker  *)
(* of lsif/src/server.ts and lsif/src/worker.ts, as one state machine over *)
(* the storage root, the cross-repo database and the queue.                *)
(***************************************************************************)
EXTENDS FiniteSets, Integers, Sequences, TLC

(***************************************************************************)
(* Bounds of the model.                                                    *)
(***************************************************************************)
\* number of POST /upload requests the model follows
MaxUploads == 2
\* number of times the server process is started
MaxStarts == 2
\* the queue's configured maximum number of attempts of one job
MaxAttempts == 2
\* number of transient failures (of the disk, the database, the queue's store or the
\* repository host) that occur in one behaviour
MaxFaults == 2
\* number of queries that go through the caches at the same time
MaxQueries == 2
\* number of queries started in one behaviour
MaxQueryRuns == 2
\* number of entries a cache is configured to hold
CacheCapacity == 1
\* number of times the factory of one key is invoked in one behaviour
MaxFactoryCalls == 2
\* the number of calls of searchResolver.Stats followed
MaxStatsCalls == 2

Requests == 1 .. MaxUploads
JobIds == 1 .. MaxUploads
DumpIds == 1 .. (MaxUploads * MaxAttempts)

(***************************************************************************)
(* Values.                                                                 *)
(***************************************************************************)
\* a query parameter that is absent from the request
Undefined == "undefined"
\* a commit query value: its type, its length and the character classes in it
UndefinedCommit == [type |-> "undefined", len |-> 0, chars |-> {}]
GoodCommit == [type |-> "string", len |-> 40, chars |-> {"0-9", "a-f"}]
OtherCommit == [type |-> "string", len |-> 40, chars |-> {"0-9"}]
ChildCommit == [type |-> "string", len |-> 40, chars |-> {"a-f"}]
ShortCommit == [type |-> "string", len |-> 7, chars |-> {"0-9", "a-f"}]
CommitValues == {GoodCommit, ShortCommit}
\* an absent file under uploads/, and an absent <id>.lsif.db
NoFile == [encoding |-> "none", body |-> "none"]
NoDump == [job |-> 0, attempt |-> 0]
NoJob == [repository |-> Undefined, commit |-> UndefinedCommit, root |-> Undefined, filename |-> 0]
NoRequest == [repository |-> Undefined, commit |-> UndefinedCommit, root |-> Undefined,
              skipValidation |-> Undefined, body |-> Undefined]
RepositoryValues == {"github.com/u/r", Undefined}
RootValues == {Undefined, "lib"}
\* the skipValidation query value: the word true, other spellings of it, or none
SkipValues == {"true", "TRUE", "1", Undefined}
Bodies == {"valid", "malformed"}
\* server.ts 63: the interval of the update-tips job, and the values the environment
\* sets it to across restarts
HEADS_JOB_SCHEDULE_INTERVAL == 30
Intervals == {HEADS_JOB_SCHEDULE_INTERVAL, 60}

VARIABLES
    \* POST /upload requests (server.ts 253-292)
    reqPc,          \* request -> "new" | "pipeline" | "enqueue" | "done"
    req,            \* request -> the query values and body of the request
    resp,           \* request -> 0 (no response yet) or the HTTP status sent
    \* the storage root
    uploadFile,     \* uploads/<uuid>: request -> NoFile or the file's content
    tmpFiles,       \* tmp/<uuid>: the set of temp files, <<job, attempt>>
    dumpFiles,      \* <id>.lsif.db: dump id -> NoDump or the conversion [job, attempt] it holds
    \* the cross-repo database
    lsif_dumps,     \* set of [id, repository, commit, root]
    visibleAtTip,   \* ids of the dumps whose visible_at_tip is set
    lsif_packages,  \* set of [dump_id, package]
    lsif_references,\* set of [dump_id, package]
    lsif_commits,   \* set of <<repository, commit>> with known parentage
    nextDumpId,
    \* the queue
    jobState,       \* job -> "none" | "waiting" | "active" | "delayed" | "completed" | "failed"
    jobArgs,        \* job -> args of the convert job
    attemptsMade,   \* job -> number of failed attempts
    failedReason,   \* job -> the error the last failed attempt ended with
    nextJobId,
    repeatable,     \* set of repeatable job entries [name, every]
    tipsDelayed,    \* repeat keys whose next update-tips instance is scheduled
    tipsActive,     \* repeat keys whose update-tips instance is running
    \* the convert job processor (worker.ts 87-124)
    pc,             \* job -> position in createConvertJobProcessor
    thrown,         \* job -> the error caught at worker.ts 106
    dump,           \* job -> id of the dump returned by addPackagesAndReferences
    \* the server process (server.ts 93-147)
    serverPc,       \* "down" | "scheduled" | "listening"
    starts,         \* number of starts of the server process
    \* the filename migration (server.ts 153-171)
    doneFile,       \* TRUE when the marker id-based-filenames exists under the storage root
    oldFiles,       \* <repo>@<commit>.lsif.db: old name -> NoDump or the data the file holds
    migPc,          \* "idle" | "loop": position in ensureFilenamesAreIDs
    migTodo,        \* the dumps the loop of server.ts 160 has still to visit
    \* a POST /exists or POST /request (server.ts 294-325) and the error handler
    qPc,            \* "new" | "backend" | "error" | "done"
    qReq,           \* the endpoint, the query values and the body of the request
    qErr,           \* the error thrown to the error handler: its status (0: none) and message
    qResp,          \* the response written: its status (0: none) and its body
    headersSent,    \* res.headersSent
    backendCalls,   \* the calls made on the backend, in order
    itemEdges,      \* the item edges between reference results in the LSIF input of the dump
    rangeOrder,     \* the ranges of src/app.ts in the order its document blob stores them
    \* a run of the importer (convertLsif, worker.ts 97)
    lsifInput,      \* the LSIF graph read from the upload: its version and its item edges
    importPc,       \* "idle" | "ingested" | "written" | "failed"
    importError,    \* the kind of error the importer failed with
    dumpStore,      \* the dump written: meta row, documents, ranges, result chunks, hovers
    \* the cache tier (ConnectionCache, DocumentCache, ResultChunkCache) and its users
    cacheEntries,   \* <<cache, key>> -> [state, refs, gen]: the entry, its reference count
    cacheLru,       \* cache -> the keys of its entries, least recently used first
    factoryCalls,   \* <<cache, key>> -> number of factory invocations so far
    closedHandles,  \* the database handles closed: <<key, gen>>
    cacheQuery,     \* query -> its position, the entries it has pinned, the values it holds
    queryRuns,      \* number of queries started
    \* one run of searchResolver.doResults (jobs.md 840-1060)
    searchOut,      \* goroutine -> what its search returned: matches, err, common
    goPc,           \* goroutine -> its position
    goIdx,          \* goroutine -> the index of its range loop
    mutex,          \* mutex -> the goroutine that holds it, or "free"
    fileMatches,    \* the map fileMatches: URI -> the fileMatchResolver stored, or NoRef
    matchHeap,      \* the fileMatchResolver objects the searches returned
    resultsSlice,   \* the slice results: references to resolvers
    multiErr,       \* the errors appended to multiErr
    common,         \* the goroutines whose common was merged into common
    mainPc,         \* doResults itself: "waiting" | "returned"
    \* searchResolver.Stats (jobs.md 574-650)
    stats,          \* the call in progress: pc, attempts, searches made, v, what it returned
    searchResultsStatsCache, \* cache key -> NoStats or the stats stored
    statsCalls,     \* number of calls of Stats so far
    faults          \* number of transient failures so far

vars == <<reqPc, req, resp, uploadFile, tmpFiles, dumpFiles, lsif_dumps, visibleAtTip, lsif_packages,
          lsif_references, lsif_commits, nextDumpId, jobState, jobArgs, attemptsMade,
          failedReason, nextJobId, repeatable, tipsDelayed, tipsActive, pc, thrown, dump,
          serverPc, starts, doneFile, oldFiles, migPc, migTodo, qPc, qReq, qErr, qResp,
          headersSent, backendCalls, itemEdges, rangeOrder, lsifInput, importPc, importError,
          dumpStore, cacheEntries, cacheLru, factoryCalls, closedHandles, cacheQuery,
          queryRuns, searchOut, goPc, goIdx, mutex, fileMatches, matchHeap, resultsSlice,
          multiErr, common, mainPc, stats, searchResultsStatsCache, statsCalls, faults>>

reqVars == <<reqPc, req, resp>>
fsVars == <<uploadFile, tmpFiles, dumpFiles>>
xrepoVars == <<lsif_dumps, visibleAtTip, lsif_packages, lsif_references, lsif_commits, nextDumpId>>
queueVars == <<jobState, jobArgs, attemptsMade, failedReason, nextJobId>>
tipsVars == <<repeatable, tipsDelayed, tipsActive>>
workerVars == <<pc, thrown, dump>>
migVars == <<doneFile, oldFiles, migPc, migTodo>>
importVars == <<lsifInput, importPc, importError, dumpStore>>
cacheVars == <<cacheEntries, cacheLru, factoryCalls, closedHandles, cacheQuery, queryRuns>>
doResultsVars == <<searchOut, goPc, goIdx, mutex, fileMatches, matchHeap, resultsSlice, multiErr,
                   common, mainPc>>
statsVars == <<stats, searchResultsStatsCache, statsCalls>>
searchVars == <<doResultsVars, statsVars>>
dbVars == <<itemEdges, rangeOrder, importVars, cacheVars, searchVars>>
queryVars == <<qPc, qReq, qErr, qResp, headersSent, backendCalls, dbVars>>
serverVars == <<serverPc, starts, migVars, queryVars>>

\* the values of a query request
NoQuery == [endpoint |-> "none", repository |-> Undefined, commit |-> UndefinedCommit,
            file |-> Undefined, body |-> "none", path |-> Undefined,
            position |-> [line |-> 0, character |-> 0], method |-> Undefined]
NoError == [thrown |-> FALSE, status |-> 0, message |-> ""]
NoResponse == [status |-> 0, json |-> "none", message |-> "", locations |-> <<>>]

\* util.ts: the file name of the scheme before ids, made of the repository and the commit
dbFilenameOld(repository, commit) == <<repository, commit>>
OldNames == {dbFilenameOld(r, c) : r \in {"github.com/u/r", "github.com/u/s"},
                                   c \in {GoodCommit, OtherCommit}}

\* createLocation(path, startLine, startCharacter, endLine, endCharacter)
createLocation(path, sl, sc, el, ec) ==
    [path |-> path, start |-> [line |-> sl, character |-> sc],
     end |-> [line |-> el, character |-> ec]]

\* the ranges of src/app.ts in the dump of a repository that uses the library: a block
\* over three lines, two ranges of four characters that overlap, and inside both the
\* use of the library's foo; and the order in which the importer emits them
Outer == createLocation("src/app.ts", 1, 0, 3, 1)
TieA == createLocation("src/app.ts", 2, 8, 2, 12)
TieB == createLocation("src/app.ts", 2, 10, 2, 14)
Inner == createLocation("src/app.ts", 2, 11, 2, 13)
AppRanges == {Outer, TieA, TieB, Inner}
AppRangesInOrder == <<Outer, TieA, TieB, Inner>>
\* the use of the library's foo in src/main.ts of a second repository that uses it
UseC == createLocation("src/main.ts", 7, 0, 7, 3)

\* no LSIF input read, and no dump written
NoInput == [version |-> "none", items |-> <<>>]
NoStore == [numResultChunks |-> 0, documents |-> <<>>, ranges |-> <<>>, resultChunks |-> <<>>,
            hoverResults |-> <<>>]
ImporterIdle ==
    /\ lsifInput = NoInput
    /\ importPc = "idle"
    /\ importError = "none"
    /\ dumpStore = NoStore

\* the three caches, in the order a query goes through them, and the dumps they serve:
\* the key of a dump is its file in the connection cache, its document in the document
\* cache, its chunk in the result-chunk cache
CacheOrder == <<"connection", "document", "resultChunk">>
CacheNames == {"connection", "document", "resultChunk"}
CacheDumps == {"1", "2"}
CacheKeys == CacheNames \X CacheDumps
CacheQueries == 1 .. MaxQueries
NoEntry == [state |-> "absent", refs |-> 0, gen |-> 0]
NoValues == [c \in CacheNames |-> 0]
IdleQuery == [pc |-> "idle", dump |-> "1", pins |-> <<>>, vals |-> NoValues,
              outcome |-> "none", visited |-> {}, used |-> "none"]
CachesIdle ==
    /\ cacheEntries = [k \in CacheKeys |-> NoEntry]
    /\ cacheLru = [c \in CacheNames |-> <<>>]
    /\ factoryCalls = [k \in CacheKeys |-> 0]
    /\ closedHandles = {}
    /\ cacheQuery = [q \in CacheQueries |-> IdleQuery]
    /\ queryRuns = 0

\* jobs.md 874-1046: the goroutines doResults starts for the result types repo, symbol
\* and file/path, and the mutexes declared at 850-860
Goroutines == {"repo", "symbol", "file"}
MergeGoroutines == {"symbol", "file"}
Mutexes == {"resultsMu", "commonMu", "multiErrMu", "fileMatchesMu"}
\* the file URIs the searches match, and the references to the resolvers they return:
\* <<goroutine, uri>> is the *fileMatchResolver the search of the goroutine built for uri
URIs == {"git://r?c#a.go", "git://r?c#b.go"}
Refs == MergeGoroutines \X URIs
NoRef == <<"none", "none">>
SymbolsOf(u) == <<"symbols", u>>
LineMatchesOf(u) == <<"lines", u>>
\* the resolver a search returns: searchSymbols fills symbols, searchFilesInRepos fills
\* JLineMatches
Resolver(g, u, limitHit) ==
    [uri |-> u,
     symbols |-> IF g = "symbol" THEN SymbolsOf(u) ELSE <<>>,
     JLineMatches |-> IF g = "file" THEN LineMatchesOf(u) ELSE <<>>,
     JLimitHit |-> limitHit]
NoSearch == [matches |-> <<>>, err |-> "none", common |-> FALSE, limitHit |-> FALSE]
\* jobs.md 574-650: the queries Stats is called for, the search outcome v and the stats
StatsQueries == {"repo:a x", "repo:b y"}
NoStats == [count |-> 0, sparkline |-> "none"]
NoResults == [err |-> FALSE, count |-> 0, cloning |-> 0, timedout |-> 0]
IdleStats == [pc |-> "idle", query |-> "repo:a x", attempts |-> 0, searches |-> 0,
              v |-> NoResults, ret |-> "none"]
SearchIdle ==
    /\ searchOut = [g \in Goroutines |-> NoSearch]
    /\ goPc = [g \in Goroutines |-> "idle"]
    /\ goIdx = [g \in Goroutines |-> 1]
    /\ mutex = [m \in Mutexes |-> "free"]
    /\ fileMatches = [u \in URIs |-> NoRef]
    /\ matchHeap = [ref \in Refs |-> Resolver(ref[1], ref[2], FALSE)]
    /\ resultsSlice = <<>>
    /\ multiErr = <<>>
    /\ common = {}
    /\ mainPc = "idle"
    /\ stats = IdleStats
    /\ searchResultsStatsCache = [q \in StatsQueries |-> NoStats]
    /\ statsCalls = 0

\* a transient failure occurs
Fault == faults < MaxFaults /\ faults' = faults + 1
NoFault == faults' = faults

InitProcesses ==
    /\ reqPc = [r \in Requests |-> "new"]
    /\ req = [r \in Requests |-> NoRequest]
    /\ resp = [r \in Requests |-> 0]
    /\ uploadFile = [r \in Requests |-> NoFile]
    /\ tmpFiles = {}
    /\ dumpFiles = [d \in DumpIds |-> NoDump]
    /\ lsif_dumps = {}
    /\ visibleAtTip = {}
    /\ lsif_packages = {}
    /\ lsif_references = {}
    /\ lsif_commits = {}
    /\ nextDumpId = 1
    /\ jobState = [j \in JobIds |-> "none"]
    /\ jobArgs = [j \in JobIds |-> NoJob]
    /\ attemptsMade = [j \in JobIds |-> 0]
    /\ failedReason = [j \in JobIds |-> "none"]
    /\ nextJobId = 1
    /\ repeatable = {}
    /\ tipsDelayed = {}
    /\ tipsActive = {}
    /\ pc = [j \in JobIds |-> "idle"]
    /\ thrown = [j \in JobIds |-> "none"]
    /\ dump = [j \in JobIds |-> 0]
    /\ serverPc = "down"
    /\ starts = 0
    /\ doneFile = TRUE
    /\ oldFiles = [n \in OldNames |-> NoDump]
    /\ migPc = "idle"
    /\ migTodo = {}
    /\ qPc = "new"
    /\ qReq = NoQuery
    /\ qErr = NoError
    /\ qResp = NoResponse
    /\ headersSent = FALSE
    /\ backendCalls = <<>>
    /\ itemEdges = {}
    /\ rangeOrder = AppRangesInOrder
    /\ faults = 0

Init == InitProcesses /\ ImporterIdle /\ CachesIdle /\ SearchIdle

(***************************************************************************)
(* POST /upload (server.ts 253-292).                                       *)
(***************************************************************************)
\* server.ts 333-339: throws (status 400) unless the value is a string
checkRepository(repository) == repository # Undefined

\* the characters are matched without regard to case
checkCommitAnyCase(commit) ==
    /\ commit.type = "string"
    /\ commit.len = 40
    /\ commit.chars # {}
    /\ commit.chars \subseteq {"0-9", "a-f", "A-F"}

\* server.ts 344-348: a string of length 40 matching /^[0-9a-f]+$/
checkCommit(commit) ==
    /\ commit.type = "string"
    /\ commit.len = 40
    /\ commit.chars # {}
    /\ commit.chars \subseteq {"0-9", "a-f"}

\* any skipValidation value that is present turns validation off
skipValidationTruthy(r) == req[r].skipValidation # Undefined

\* server.ts 262
skipValidation(r) == req[r].skipValidation = "true"

\* what the pipeline of server.ts 272-279 writes when it runs to its end: the
\* request bytes as they are, or the validated elements stringified and gzipped again
Piped(r) ==
    IF skipValidation(r) THEN [encoding |-> "raw", body |-> req[r].body]
    ELSE [encoding |-> "regz", body |-> req[r].body]

\* what is on disk when the pipeline stops early
Truncated(r) ==
    [encoding |-> IF skipValidation(r) THEN "raw" ELSE "regz", body |-> "partial"]

\* server.ts 70-86: the status the error handler answers a thrown error with
errorHandler(status) == IF status # 0 THEN status ELSE 500

\* the upload file is opened for writing before the query values are checked
UploadBeginFromOpensFirst(r, skips, bodies) ==
    /\ serverPc = "listening"
    /\ reqPc[r] = "new"
    /\ \E repository \in RepositoryValues, commit \in CommitValues, root \in RootValues,
          skip \in skips, body \in bodies :
          /\ uploadFile' = [uploadFile EXCEPT ![r] = [encoding |-> "raw", body |-> "empty"]]
          /\ IF checkRepository(repository) /\ checkCommit(commit)
             THEN /\ req' = [req EXCEPT ![r] = [repository |-> repository, commit |-> commit,
                                                root |-> root, skipValidation |-> skip,
                                                body |-> body]]
                  /\ reqPc' = [reqPc EXCEPT ![r] = "pipeline"]
                  /\ resp' = resp
             ELSE /\ resp' = [resp EXCEPT ![r] = errorHandler(400)]
                  /\ reqPc' = [reqPc EXCEPT ![r] = "done"]
                  /\ req' = req
    /\ UNCHANGED <<tmpFiles, dumpFiles, xrepoVars, queueVars, tipsVars, workerVars, serverVars>>
    /\ NoFault

\* server.ts 261-268: the checks, then the upload file is opened for writing; the
\* request's skipValidation and body are drawn from the given sets
UploadBeginFrom(r, skips, bodies) ==
    /\ serverPc = "listening"
    /\ reqPc[r] = "new"
    /\ \E repository \in RepositoryValues, commit \in CommitValues, root \in RootValues,
          skip \in skips, body \in bodies :
          IF checkRepository(repository) /\ checkCommit(commit)
          THEN /\ req' = [req EXCEPT ![r] = [repository |-> repository, commit |-> commit,
                                             root |-> root, skipValidation |-> skip,
                                             body |-> body]]
               /\ uploadFile' = [uploadFile EXCEPT ![r] = [encoding |-> "raw", body |-> "empty"]]
               /\ reqPc' = [reqPc EXCEPT ![r] = "pipeline"]
               /\ resp' = resp
          ELSE /\ resp' = [resp EXCEPT ![r] = errorHandler(400)]
               /\ reqPc' = [reqPc EXCEPT ![r] = "done"]
               /\ UNCHANGED <<req, uploadFile>>
    /\ UNCHANGED <<tmpFiles, dumpFiles, xrepoVars, queueVars, tipsVars, workerVars, serverVars>>
    /\ NoFault

UploadBegin(r) == UploadBeginFrom(r, SkipValues, Bodies)

\* server.ts 270-283: the pipeline ran to its end
UploadPipelineOk(r) ==
    /\ reqPc[r] = "pipeline"
    /\ skipValidation(r) \/ req[r].body = "valid"
    /\ uploadFile' = [uploadFile EXCEPT ![r] = Piped(r)]
    /\ reqPc' = [reqPc EXCEPT ![r] = "enqueue"]
    /\ UNCHANGED <<req, resp, tmpFiles, dumpFiles, xrepoVars, queueVars, tipsVars,
                   workerVars, serverVars>>
    /\ NoFault

\* the rejection of the pipeline is swallowed and the handler goes on to enqueue
UploadPipelineFailSwallowed(r) ==
    /\ reqPc[r] = "pipeline"
    /\ \E cause \in {"validation", "io"} :
          /\ IF cause = "validation"
             THEN ~skipValidation(r) /\ req[r].body = "malformed" /\ NoFault
             ELSE Fault
          /\ uploadFile' = [uploadFile EXCEPT ![r] = Truncated(r)]
    /\ reqPc' = [reqPc EXCEPT ![r] = "enqueue"]
    /\ UNCHANGED <<req, resp, tmpFiles, dumpFiles, xrepoVars, queueVars, tipsVars, workerVars,
                   serverVars>>

\* server.ts 281-283: the pipeline rejected (validateLsifElements threw, or reading the
\* request or writing the file failed); whatever the error, it is given status 422
UploadPipelineFail(r) ==
    /\ reqPc[r] = "pipeline"
    /\ \E cause \in {"validation", "io"} :
          /\ IF cause = "validation"
             THEN ~skipValidation(r) /\ req[r].body = "malformed" /\ NoFault
             ELSE Fault
          /\ uploadFile' = [uploadFile EXCEPT ![r] = Truncated(r)]
    /\ resp' = [resp EXCEPT ![r] = errorHandler(422)]
    /\ reqPc' = [reqPc EXCEPT ![r] = "done"]
    /\ req' = [req EXCEPT ![r] = NoRequest]
    /\ UNCHANGED <<tmpFiles, dumpFiles, xrepoVars, queueVars, tipsVars, workerVars, serverVars>>

(***************************************************************************)
(* The queue (lsif/src/queue.ts is not part of the sources at hand; its    *)
(* operations follow the job pipeline the specification describes).        *)
(***************************************************************************)
\* enqueue(queue, 'convert', args, ...): a new waiting job
enqueue(args) ==
    /\ jobState' = [jobState EXCEPT ![nextJobId] = "waiting"]
    /\ jobArgs' = [jobArgs EXCEPT ![nextJobId] = args]
    /\ nextJobId' = nextJobId + 1
    /\ UNCHANGED <<attemptsMade, failedReason>>

\* the processor's promise rejected: the attempt is counted, and the job is delayed
\* for a retry or, after the configured number of attempts, failed for good
moveToFailed(j, reason) ==
    /\ attemptsMade' = [attemptsMade EXCEPT ![j] = @ + 1]
    /\ failedReason' = [failedReason EXCEPT ![j] = reason]
    /\ jobState' = [jobState EXCEPT ![j] =
                        IF attemptsMade[j] + 1 < MaxAttempts THEN "delayed" ELSE "failed"]
    /\ UNCHANGED <<jobArgs, nextJobId>>

\* the processor's promise resolved
moveToCompleted(j) ==
    /\ jobState' = [jobState EXCEPT ![j] = "completed"]
    /\ UNCHANGED <<jobArgs, attemptsMade, failedReason, nextJobId>>

\* the jobs whose args name the upload file of request r
JobsOf(r) == {j \in JobIds : jobState[j] # "none" /\ jobArgs[j].filename = r}

\* server.ts 285-289: the convert job is enqueued, then the response is sent
UploadEnqueue(r) ==
    /\ reqPc[r] = "enqueue"
    /\ enqueue([repository |-> req[r].repository, commit |-> req[r].commit,
                root |-> IF req[r].root = Undefined THEN "" ELSE req[r].root,
                filename |-> r])
    /\ resp' = [resp EXCEPT ![r] = 200]
    /\ reqPc' = [reqPc EXCEPT ![r] = "done"]
    /\ req' = [req EXCEPT ![r] = NoRequest]
    /\ UNCHANGED <<fsVars, xrepoVars, tipsVars, workerVars, serverVars>>
    /\ NoFault

\* server.ts 288: enqueue rejected (the queue's store cannot be reached); the error
\* carries no status
UploadEnqueueFail(r) ==
    /\ reqPc[r] = "enqueue"
    /\ resp' = [resp EXCEPT ![r] = errorHandler(0)]
    /\ reqPc' = [reqPc EXCEPT ![r] = "done"]
    /\ req' = [req EXCEPT ![r] = NoRequest]
    /\ UNCHANGED <<fsVars, xrepoVars, queueVars, tipsVars, workerVars, serverVars>>
    /\ Fault

\* the backoff delay of a failed attempt has passed: the job waits for a worker again
JobRetry(j) ==
    /\ jobState[j] = "delayed"
    /\ jobState' = [jobState EXCEPT ![j] = "waiting"]
    /\ UNCHANGED <<reqVars, fsVars, xrepoVars, jobArgs, attemptsMade, failedReason, nextJobId,
                   tipsVars, workerVars, serverVars>>
    /\ NoFault

(***************************************************************************)
(* The cross-repo database (lsif/src/xrepo.ts is not part of the sources   *)
(* at hand; modelled from the specification's section 4.5).                *)
(***************************************************************************)
DumpsOf(repository, commit, root) ==
    {d \in lsif_dumps : d.repository = repository /\ d.commit = commit /\ d.root = root}

\* the rows of the dump that is replaced are left in place
addPackagesAndReferencesKeepsOld(repository, commit, root, packages, references) ==
    /\ lsif_dumps' = (lsif_dumps \ DumpsOf(repository, commit, root))
                         \cup {[id |-> nextDumpId, repository |-> repository,
                                commit |-> commit, root |-> root]}
    /\ visibleAtTip' = visibleAtTip
    /\ lsif_packages' = lsif_packages
                            \cup {[dump_id |-> nextDumpId, package |-> p] : p \in packages}
    /\ lsif_references' = lsif_references
                            \cup {[dump_id |-> nextDumpId, package |-> p] : p \in references}
    /\ nextDumpId' = nextDumpId + 1

\* transactional: the dump row of (repository, commit, root) is replaced by a row with
\* the next id, the old dump's package and reference rows are deleted, the new ones
\* inserted
addPackagesAndReferences(repository, commit, root, packages, references) ==
    LET old == {d.id : d \in DumpsOf(repository, commit, root)}
    IN  /\ lsif_dumps' = (lsif_dumps \ DumpsOf(repository, commit, root))
                            \cup {[id |-> nextDumpId, repository |-> repository,
                                   commit |-> commit, root |-> root]}
        /\ visibleAtTip' = visibleAtTip \ old
        /\ lsif_packages' = {p \in lsif_packages : p.dump_id \notin old}
                               \cup {[dump_id |-> nextDumpId, package |-> p] : p \in packages}
        /\ lsif_references' = {p \in lsif_references : p.dump_id \notin old}
                               \cup {[dump_id |-> nextDumpId, package |-> p] : p \in references}
        /\ nextDumpId' = nextDumpId + 1

\* lsif_packages lookup by package
findDefiningDump(package) == {p.dump_id : p \in {q \in lsif_packages : q.package = package}}

\* a file name taken from the repository and commit: one path for every dump of the key
dbFilenameOfKey(id, repository, commit) == 1

\* <id>.lsif.db under the storage root: the file is named by the dump id alone
dbFilename(id, repository, commit) == id

(***************************************************************************)
(* The importer (lsif/src/importer.ts is not part of the sources at hand). *)
(***************************************************************************)
\* the packages a dump of this job exports and the packages it imports
PackagesOf(j) == {<<jobArgs[j].repository, jobArgs[j].root>>}
ReferencesOf(j) == {<<"dep", "">>}

\* the importer can succeed only on well-formed input
Importable(content) == content.body = "valid"

(***************************************************************************)
(* The convert job (worker.ts 87-124).                                     *)
(***************************************************************************)
\* one temp path for every conversion
tempFileShared(j) == <<1, 1>>

\* worker.ts 93: a fresh path under tmp/ in every attempt
tempFile(j) == <<j, attemptsMade[j] + 1>>

\* worker.ts 51-77, 91-93: the queue hands a waiting job to the processor
JobStart(j) ==
    /\ jobState[j] = "waiting"
    /\ jobState' = [jobState EXCEPT ![j] = "active"]
    /\ pc' = [pc EXCEPT ![j] = "convertLsif"]
    /\ thrown' = [thrown EXCEPT ![j] = "none"]
    /\ dump' = [dump EXCEPT ![j] = 0]
    /\ UNCHANGED <<reqVars, fsVars, xrepoVars, jobArgs, attemptsMade, failedReason, nextJobId,
                   tipsVars, serverVars>>
    /\ NoFault

\* convertLsif is not awaited: the next step starts before the database is written
ConvertImportNotAwaited(j) ==
    /\ pc[j] = "convertLsif"
    /\ Importable(uploadFile[jobArgs[j].filename])
    /\ pc' = [pc EXCEPT ![j] = "addPackagesAndReferences"]
    /\ NoFault
    /\ UNCHANGED <<reqVars, fsVars, xrepoVars, queueVars, tipsVars, thrown, dump, serverVars>>

\* worker.ts 97: the importer wrote the database to the temp path
ConvertImportOk(j) ==
    /\ pc[j] = "convertLsif"
    /\ Importable(uploadFile[jobArgs[j].filename])
    /\ tmpFiles' = tmpFiles \cup {tempFile(j)}
    /\ pc' = [pc EXCEPT ![j] = "addPackagesAndReferences"]
    /\ UNCHANGED <<reqVars, uploadFile, dumpFiles, xrepoVars, queueVars, tipsVars, thrown, dump,
                   serverVars>>
    /\ NoFault

\* the packages and references read before the bad line are registered as they are read
ConvertImportFailAfterRegister(j) ==
    /\ pc[j] = "convertLsif"
    /\ \E created \in BOOLEAN :
          tmpFiles' = IF created THEN tmpFiles \cup {tempFile(j)} ELSE tmpFiles
    /\ IF Importable(uploadFile[jobArgs[j].filename]) THEN Fault ELSE NoFault
    /\ addPackagesAndReferences(jobArgs[j].repository, jobArgs[j].commit, jobArgs[j].root,
                                PackagesOf(j), {})
    /\ thrown' = [thrown EXCEPT ![j] = "convertLsif"]
    /\ pc' = [pc EXCEPT ![j] = "catch"]
    /\ UNCHANGED <<reqVars, uploadFile, dumpFiles, lsif_commits, queueVars, tipsVars, dump,
                   serverVars>>

\* worker.ts 97, 106: the importer threw, before or after it created the temp file
ConvertImportFail(j) ==
    /\ pc[j] = "convertLsif"
    /\ \E created \in BOOLEAN :
          tmpFiles' = IF created THEN tmpFiles \cup {tempFile(j)} ELSE tmpFiles
    /\ IF Importable(uploadFile[jobArgs[j].filename]) THEN Fault ELSE NoFault
    /\ thrown' = [thrown EXCEPT ![j] = "convertLsif"]
    /\ pc' = [pc EXCEPT ![j] = "catch"]
    /\ UNCHANGED <<reqVars, uploadFile, dumpFiles, xrepoVars, queueVars, tipsVars, dump,
                   serverVars>>

\* worker.ts 100-102: the packages and references are registered; the dump is returned
ConvertRegisterOk(j) ==
    /\ pc[j] = "addPackagesAndReferences"
    /\ addPackagesAndReferences(jobArgs[j].repository, jobArgs[j].commit, jobArgs[j].root,
                                PackagesOf(j), ReferencesOf(j))
    /\ dump' = [dump EXCEPT ![j] = nextDumpId]
    /\ pc' = [pc EXCEPT ![j] = "rename"]
    /\ UNCHANGED <<reqVars, fsVars, lsif_commits, queueVars, tipsVars, thrown, serverVars>>
    /\ NoFault

\* worker.ts 100-102, 106: the transaction failed and left the database as it was
ConvertRegisterFail(j) ==
    /\ pc[j] = "addPackagesAndReferences"
    /\ thrown' = [thrown EXCEPT ![j] = "addPackagesAndReferences"]
    /\ pc' = [pc EXCEPT ![j] = "catch"]
    /\ UNCHANGED <<reqVars, fsVars, xrepoVars, queueVars, tipsVars, dump, serverVars>>
    /\ Fault

\* the temp file is moved to the path of the old naming scheme, <repo>@<commit>.lsif.db
ConvertRenameToOldName(j) ==
    /\ pc[j] = "rename"
    /\ tempFile(j) \in tmpFiles
    /\ tmpFiles' = tmpFiles \ {tempFile(j)}
    /\ pc' = [pc EXCEPT ![j] = "discoverAndUpdateCommit"]
    /\ NoFault
    /\ UNCHANGED <<reqVars, uploadFile, dumpFiles, xrepoVars, queueVars, tipsVars, thrown, dump,
                   serverVars>>

\* worker.ts 105: the temp file is moved to the dump's final path
ConvertRenameOk(j) ==
    /\ pc[j] = "rename"
    /\ tempFile(j) \in tmpFiles
    /\ dumpFiles' = [dumpFiles EXCEPT
                        ![dbFilename(dump[j], jobArgs[j].repository, jobArgs[j].commit)] =
                            [job |-> j, attempt |-> attemptsMade[j] + 1]]
    /\ tmpFiles' = tmpFiles \ {tempFile(j)}
    /\ pc' = [pc EXCEPT ![j] = "discoverAndUpdateCommit"]
    /\ UNCHANGED <<reqVars, uploadFile, xrepoVars, queueVars, tipsVars, thrown, dump, serverVars>>
    /\ NoFault

\* worker.ts 105-106: rename threw
ConvertRenameFail(j) ==
    /\ pc[j] = "rename"
    /\ thrown' = [thrown EXCEPT ![j] = "rename"]
    /\ pc' = [pc EXCEPT ![j] = "catch"]
    /\ UNCHANGED <<reqVars, fsVars, xrepoVars, queueVars, tipsVars, dump, serverVars>>
    /\ Fault

\* the catch block unlinks the upload file in place of the temp file
ConvertCatchUnlinksUpload(j) ==
    /\ pc[j] = "catch"
    /\ uploadFile' = [uploadFile EXCEPT ![jobArgs[j].filename] = NoFile]
    /\ moveToFailed(j, thrown[j])
    /\ pc' = [pc EXCEPT ![j] = "idle"]
    /\ thrown' = [thrown EXCEPT ![j] = "none"]
    /\ dump' = [dump EXCEPT ![j] = 0]
    /\ NoFault
    /\ UNCHANGED <<reqVars, tmpFiles, dumpFiles, xrepoVars, tipsVars, serverVars>>

\* the catch block throws the error again without unlinking the temp file
ConvertCatchKeepsTemp(j) ==
    /\ pc[j] = "catch"
    /\ moveToFailed(j, thrown[j])
    /\ pc' = [pc EXCEPT ![j] = "idle"]
    /\ thrown' = [thrown EXCEPT ![j] = "none"]
    /\ dump' = [dump EXCEPT ![j] = 0]
    /\ NoFault
    /\ UNCHANGED <<reqVars, fsVars, xrepoVars, tipsVars, serverVars>>

\* worker.ts 106-110: the temp file is unlinked and the error thrown again; unlink of
\* a path that does not exist throws in its place
ConvertCatch(j) ==
    /\ pc[j] = "catch"
    /\ IF tempFile(j) \in tmpFiles
       THEN /\ tmpFiles' = tmpFiles \ {tempFile(j)}
            /\ moveToFailed(j, thrown[j])
       ELSE /\ tmpFiles' = tmpFiles
            /\ moveToFailed(j, "ENOENT")
    /\ pc' = [pc EXCEPT ![j] = "idle"]
    /\ thrown' = [thrown EXCEPT ![j] = "none"]
    /\ dump' = [dump EXCEPT ![j] = 0]
    /\ UNCHANGED <<reqVars, uploadFile, dumpFiles, xrepoVars, tipsVars, serverVars>>
    /\ NoFault

\* worker.ts 114-120: the commit's parentage is recorded
ConvertCommitOk(j) ==
    /\ pc[j] = "discoverAndUpdateCommit"
    /\ lsif_commits' = lsif_commits \cup {<<jobArgs[j].repository, jobArgs[j].commit>>}
    /\ pc' = [pc EXCEPT ![j] = "unlink"]
    /\ UNCHANGED <<reqVars, fsVars, lsif_dumps, visibleAtTip, lsif_packages, lsif_references,
                   nextDumpId, queueVars, tipsVars, thrown, dump, serverVars>>
    /\ NoFault

\* the failed update of the commit's parentage takes the dump file away again
ConvertCommitFailRemovesDump(j) ==
    /\ pc[j] = "discoverAndUpdateCommit"
    /\ dumpFiles' = [dumpFiles EXCEPT
                        ![dbFilename(dump[j], jobArgs[j].repository, jobArgs[j].commit)] = NoDump]
    /\ moveToFailed(j, "discoverAndUpdateCommit")
    /\ pc' = [pc EXCEPT ![j] = "idle"]
    /\ dump' = [dump EXCEPT ![j] = 0]
    /\ Fault
    /\ UNCHANGED <<reqVars, uploadFile, tmpFiles, xrepoVars, tipsVars, thrown, serverVars>>

\* the upload file is removed before the commit's parentage is updated
ConvertCommitFailAfterUnlink(j) ==
    /\ pc[j] = "discoverAndUpdateCommit"
    /\ uploadFile' = [uploadFile EXCEPT ![jobArgs[j].filename] = NoFile]
    /\ moveToFailed(j, "discoverAndUpdateCommit")
    /\ pc' = [pc EXCEPT ![j] = "idle"]
    /\ dump' = [dump EXCEPT ![j] = 0]
    /\ Fault
    /\ UNCHANGED <<reqVars, tmpFiles, dumpFiles, xrepoVars, tipsVars, thrown, serverVars>>

\* worker.ts 114-120: discoverAndUpdateCommit threw; nothing catches it
ConvertCommitFail(j) ==
    /\ pc[j] = "discoverAndUpdateCommit"
    /\ moveToFailed(j, "discoverAndUpdateCommit")
    /\ pc' = [pc EXCEPT ![j] = "idle"]
    /\ dump' = [dump EXCEPT ![j] = 0]
    /\ UNCHANGED <<reqVars, fsVars, xrepoVars, tipsVars, thrown, serverVars>>
    /\ Fault

\* worker.ts 123: the upload file is removed and the job is complete
ConvertUnlink(j) ==
    /\ pc[j] = "unlink"
    /\ IF uploadFile[jobArgs[j].filename] # NoFile
       THEN /\ uploadFile' = [uploadFile EXCEPT ![jobArgs[j].filename] = NoFile]
            /\ moveToCompleted(j)
       ELSE /\ uploadFile' = uploadFile
            /\ moveToFailed(j, "ENOENT")
    /\ pc' = [pc EXCEPT ![j] = "idle"]
    /\ dump' = [dump EXCEPT ![j] = 0]
    /\ UNCHANGED <<reqVars, tmpFiles, dumpFiles, xrepoVars, tipsVars, thrown, serverVars>>
    /\ NoFault

(***************************************************************************)
(* The server process (server.ts 93-147) and the update-tips job.          *)
(***************************************************************************)
\* queue.ts: every repeatable job is removed, with the instance scheduled for it, and
\* one repeatable job of the given interval is added and its first instance scheduled
ensureOnlyRepeatableJob(every) ==
    /\ repeatable' = {every}
    /\ tipsDelayed' = {every}

\* the repeatable job is added without removing the ones scheduled before
ServerScheduleAddsOnly ==
    /\ serverPc = "down"
    /\ starts < MaxStarts
    /\ \E every \in (IF starts = 0 THEN {HEADS_JOB_SCHEDULE_INTERVAL} ELSE Intervals) :
          /\ repeatable' = repeatable \cup {every}
          /\ tipsDelayed' = tipsDelayed \cup {every}
    /\ serverPc' = "scheduled"
    /\ starts' = starts + 1
    /\ NoFault
    /\ UNCHANGED <<reqVars, fsVars, xrepoVars, queueVars, tipsActive, workerVars, migVars,
                   queryVars>>

\* server.ts 108-117: the storage directories, the queue, the update-tips schedule
ServerSchedule ==
    /\ serverPc = "down"
    /\ starts < MaxStarts
    /\ \E every \in (IF starts = 0 THEN {HEADS_JOB_SCHEDULE_INTERVAL} ELSE Intervals) :
          ensureOnlyRepeatableJob(every)
    /\ serverPc' = "scheduled"
    /\ starts' = starts + 1
    /\ UNCHANGED <<reqVars, fsVars, xrepoVars, queueVars, tipsActive, workerVars, migVars,
                   queryVars>>
    /\ NoFault

\* the server listens while ensureFilenamesAreIDs has not returned
ServerListenBeforeMigration ==
    /\ serverPc = "scheduled"
    /\ serverPc' = "listening"
    /\ NoFault
    /\ UNCHANGED <<reqVars, fsVars, xrepoVars, queueVars, tipsVars, workerVars, starts, migVars,
                   queryVars>>

\* server.ts 119-146: ensureFilenamesAreIDs returned (the marker exists, server.ts
\* 155-158 or 170), the endpoints are registered and the server listens
ServerListen ==
    /\ serverPc = "scheduled"
    /\ migPc = "idle"
    /\ doneFile
    /\ serverPc' = "listening"
    /\ UNCHANGED <<reqVars, fsVars, xrepoVars, queueVars, tipsVars, workerVars, starts, migVars,
                   queryVars>>
    /\ NoFault

\* the server process ends (a deployment, a restart) while it serves no request
ServerStop ==
    /\ serverPc \in {"scheduled", "listening"}
    /\ \A r \in Requests : reqPc[r] \in {"new", "done"}
    /\ serverPc' = "down"
    /\ migPc' = "idle"
    /\ migTodo' = {}
    /\ NoFault
    /\ UNCHANGED <<reqVars, fsVars, xrepoVars, queueVars, tipsVars, workerVars, starts, doneFile,
                   oldFiles, queryVars>>

(***************************************************************************)
(* The dump the queries are answered from, the importer's merge of linked  *)
(* reference results and the query database (lsif/src/importer.ts and      *)
(* lsif/src/database.ts are not part of the sources at hand; the dump is   *)
(* the one the test of Database.references converts, its source being      *)
(*   interface I { foo } class A implements I { foo } class B implements I *)
(*   { foo }, a call of foo through an I and a call through a B).          *)
(***************************************************************************)
DefI == createLocation("src/index.ts", 1, 4, 1, 7)
DefA == createLocation("src/index.ts", 5, 4, 5, 7)
DefB == createLocation("src/index.ts", 9, 4, 9, 7)
UseI == createLocation("src/index.ts", 13, 2, 13, 5)
UseB == createLocation("src/index.ts", 16, 2, 16, 5)
Ranges == {DefI, DefA, DefB, UseI, UseB}

\* the documents of the dump
Documents == {"src/index.ts"}

\* the reference results of the input, the one attached to each range, and the ranges
\* each lists with its item edges of property definitions and references
ReferenceResults == {"refI", "refA", "refB"}

ReferenceResultOf(range) ==
    CASE range \in {DefI, UseI} -> "refI"
      [] range = DefA -> "refA"
      [] range \in {DefB, UseB} -> "refB"
      [] range = Outer -> "refOuter"
      [] range = TieA -> "refTieA"
      [] range = TieB -> "refTieB"
      [] range = Inner -> "refInner"
      [] range = UseC -> "refC"

ItemsOf(result) ==
    CASE result = "refI" -> {DefI, UseI}
      [] result = "refA" -> {DefA}
      [] result = "refB" -> {DefB, UseB}
      [] result = "refOuter" -> {Outer}
      [] result = "refTieA" -> {TieA}
      [] result = "refTieB" -> {TieB}
      [] result = "refInner" -> {Inner}
      [] result = "refC" -> {UseC}

\* the ranges that declare a symbol of their own document
Declarations == {DefI, DefA, DefB, Outer, TieA, TieB}

\* the ranges of the dump of a repository under a root
RangesOf(d) ==
    IF d.root = "lib" THEN {}
    ELSE CASE d.repository = "github.com/u/r" -> Ranges
           [] d.repository = "github.com/u/s" -> AppRanges
           [] OTHER -> {UseC}

\* the item edges of property referenceResults a well-formed input may hold
PossibleItemEdges == {<<"refA", "refI">>, <<"refB", "refI">>, <<"refB", "refA">>}

\* only the results an edge names directly are merged
LinkedOneHop(results) ==
    results \cup {b \in ReferenceResults :
                    \E a \in results : <<a, b>> \in itemEdges \/ <<b, a>> \in itemEdges}

\* canonicalize pass: the reference results linked to the given ones, over item edges in
\* either direction and any number of them
RECURSIVE Linked(_)
Linked(results) ==
    LET more == results \cup {b \in ReferenceResults :
                                 \E a \in results : <<a, b>> \in itemEdges \/ <<b, a>> \in itemEdges}
    IN  IF more = results THEN results ELSE Linked(more)

\* the ranges of the merged reference result
MergedItems(result) == UNION {ItemsOf(r) : r \in Linked({result})}

\* the members of a set of locations in a list, each once
RECURSIVE SetToSeq(_)
SetToSeq(S) ==
    IF S = {} THEN <<>>
    ELSE LET x == CHOOSE y \in S :
                     \A z \in S : y.start.line <= z.start.line
         IN  <<x>> \o SetToSeq(S \ {x})

\* the ranges of a document of the dump, in the order the document stores them
StoredRanges(d, path) ==
    IF d.repository = "github.com/u/s" /\ d.root = "" /\ path = "src/app.ts" THEN rangeOrder
    ELSE SetToSeq({r \in RangesOf(d) : r.path = path})

\* the range contains the position: from its start on, and before its end (the end
\* character is outside the range)
ContainsPosition(r, position) ==
    /\ \/ r.start.line < position.line
       \/ r.start.line = position.line /\ r.start.character <= position.character
    /\ \/ position.line < r.end.line
       \/ position.line = r.end.line /\ position.character < r.end.character

\* database.ts: the ranges of the document that contain the position, in stored order
findRanges(d, path, position) ==
    SelectSeq(StoredRanges(d, path), LAMBDA r : ContainsPosition(r, position))

\* range a comes before range b: it has less area (fewer lines, or as many lines and
\* fewer characters), or the same area and an earlier start
LinesOf(r) == r.end.line - r.start.line
CharactersOf(r) == r.end.character - r.start.character
LessArea(a, b) ==
    \/ LinesOf(a) < LinesOf(b)
    \/ LinesOf(a) = LinesOf(b) /\ CharactersOf(a) < CharactersOf(b)
StartsBefore(a, b) ==
    \/ a.start.line < b.start.line
    \/ a.start.line = b.start.line /\ a.start.character < b.start.character

\* of ranges of the same area the one met first is kept
InnermostFirstMet(ranges) ==
    LET Pick[i \in 1 .. Len(ranges)] ==
            IF i = 1 THEN ranges[1]
            ELSE IF LessArea(ranges[i], Pick[i - 1]) THEN ranges[i] ELSE Pick[i - 1]
    IN  Pick[Len(ranges)]

\* database.ts: the innermost of the ranges found: the one of least area, the earliest
\* start among those of the same area
Innermost(ranges) ==
    LET Pick[i \in 1 .. Len(ranges)] ==
            IF i = 1 THEN ranges[1]
            ELSE IF \/ LessArea(ranges[i], Pick[i - 1])
                    \/ /\ ~LessArea(Pick[i - 1], ranges[i])
                       /\ StartsBefore(ranges[i], Pick[i - 1])
                 THEN ranges[i]
                 ELSE Pick[i - 1]
    IN  Pick[Len(ranges)]

\* Database.references(path, position): the locations of the merged reference result of
\* the innermost range at the position
references(d, path, position) ==
    LET found == findRanges(d, path, position)
    IN  IF found = <<>> THEN <<>>
        ELSE SetToSeq(MergedItems(ReferenceResultOf(Innermost(found))))

\* Database.definitions(path, position): the definition of the innermost range at the
\* position
definitions(d, path, position) ==
    LET found == findRanges(d, path, position)
    IN  IF found = <<>> THEN <<>>
        ELSE SetToSeq({x \in Declarations \cap RangesOf(d) :
                          ReferenceResultOf(x) = ReferenceResultOf(Innermost(found))})

\* the documents of the dump of a repository at a commit under a root: the file
\* src/added.ts is added by the last commit, and a dump of the root lib holds the
\* files under lib/ only
DocumentsOf(d) ==
    IF d.root = "lib" THEN {"lib/index.ts"}
    ELSE IF d.repository # "github.com/u/r" THEN {r.path : r \in RangesOf(d)}
    ELSE IF d.commit = ChildCommit THEN Documents \cup {"src/added.ts"}
    ELSE Documents

\* Database.exists(path): a document exists at the path in the dump the database is
\* opened on
exists(d, path) == path \in DocumentsOf(d)

(***************************************************************************)
(* The backend (lsif/src/backend.ts is not part of the sources at hand;    *)
(* modelled from the specification's sections 4.4 to 4.7).                 *)
(***************************************************************************)
\* the commit graph of the repositories, <<child, parent>>: OtherCommit is the parent
\* of GoodCommit, which is the parent of ChildCommit
CommitParents == {<<GoodCommit, OtherCommit>>, <<ChildCommit, GoodCommit>>}

\* the number of parent edges from a commit up to one of its ancestors (9: the second
\* is not the commit or an ancestor of it)
RECURSIVE ParentHops(_, _)
ParentHops(commit, ancestor) ==
    IF commit = ancestor THEN 0
    ELSE LET up == {ParentHops(e[2], ancestor) : e \in {f \in CommitParents : f[1] = commit}}
         IN  IF \E n \in up : n < 9
             THEN 1 + (CHOOSE n \in up : \A k \in up : n <= k)
             ELSE 9

\* the number of parent edges between two commits of the graph (9: unrelated)
CommitDistance(a, b) ==
    IF ParentHops(a, b) <= ParentHops(b, a) THEN ParentHops(a, b) ELSE ParentHops(b, a)

\* the root of a dump is a prefix of the path
RootIsPrefixOf(root, path) == root = "" \/ (root = "lib" /\ path \in {"lib/index.ts"})

\* the nearest dumps in either direction, an ancestor and a descendant as far away
\* counting alike
findClosestDumpEitherDirection(repository, commit, path) ==
    LET fit == {d \in lsif_dumps : /\ d.repository = repository
                                   /\ RootIsPrefixOf(d.root, path)
                                   /\ CommitDistance(d.commit, commit) < 9}
    IN  {d \in fit : \A e \in fit : CommitDistance(d.commit, commit)
                                        <= CommitDistance(e.commit, commit)}

\* xrepo.ts: the dumps of the repository whose root is a prefix of the path, at the
\* commit nearest to the given one among its ancestors and descendants; of an ancestor
\* and a descendant as far away, the ancestor
findClosestDump(repository, commit, path) ==
    LET fit == {d \in lsif_dumps : /\ d.repository = repository
                                   /\ RootIsPrefixOf(d.root, path)
                                   /\ CommitDistance(d.commit, commit) < 9}
        nearest == {d \in fit : \A e \in fit : CommitDistance(d.commit, commit)
                                                    <= CommitDistance(e.commit, commit)}
        above == {d \in nearest : ParentHops(commit, d.commit) < 9}
    IN  IF above # {} THEN above ELSE nearest

\* no dump row
NoRow == [id |-> 0, repository |-> Undefined, commit |-> UndefinedCommit, root |-> Undefined]

\* Backend: the dump a call is answered from, or none
ClosestDumps(call) ==
    IF findClosestDump(call.repository, call.commit, call.path) = {} THEN {NoRow}
    ELSE findClosestDump(call.repository, call.commit, call.path)

\* the monikers of a range: the declarations and uses of the three foo of the library
\* carry the moniker their package exports, the uses of the library's foo in the
\* repositories that depend on it the moniker they import
LibraryPackage == <<"github.com/u/r", "">>
MonikersOf(range) ==
    CASE range \in {DefI, UseI} ->
             {[kind |-> "export", package |-> LibraryPackage, identifier |-> "I.foo"]}
      [] range = DefA ->
             {[kind |-> "export", package |-> LibraryPackage, identifier |-> "A.foo"]}
      [] range \in {DefB, UseB} ->
             {[kind |-> "export", package |-> LibraryPackage, identifier |-> "B.foo"]}
      [] range \in {Inner, UseC} ->
             {[kind |-> "import", package |-> LibraryPackage, identifier |-> "I.foo"]}
      [] OTHER -> {}

\* the references table of a dump: the uses in it of the moniker with the identifier
ReferenceRows(d, identifier) ==
    {r \in RangesOf(d) \ Declarations : \E mk \in MonikersOf(r) : mk.identifier = identifier}

\* the filter of a dump's lsif_references rows: the identifiers it imports and uses (a
\* filter that lets another identifier pass costs a look into a dump without a row)
FilterOf(d) ==
    {mk.identifier : mk \in {k \in UNION {MonikersOf(r) : r \in RangesOf(d)} :
                                k.kind = "import"}}

\* xrepo.ts: the packages a dump exports and imports, as the importer returns them
ExportsOf(d) == {<<d.repository, d.root>>}
ImportsOf(d) == IF d.repository = "github.com/u/r" THEN {<<"dep", "">>} ELSE {LibraryPackage}

\* xrepo.ts: the dumps with an lsif_references row of the package whose filter holds
\* the identifier
findReferencingDumps(package, identifier) ==
    {d \in lsif_dumps : /\ \E row \in lsif_references :
                               row.dump_id = d.id /\ row.package = package
                        /\ identifier \in FilterOf(d)}

\* the dumps another dump's moniker leads to: those that import the package it exports
\* and use the identifier, or the one that defines the package it imports
RemoteDumps(mk) ==
    CASE mk.kind = "export" -> findReferencingDumps(mk.package, mk.identifier)
      [] mk.kind = "import" -> {e \in lsif_dumps : e.id \in findDefiningDump(mk.package)}
      [] OTHER -> {}

\* a location in another dump, named with its repository
RemoteLocation(e, r) == [r EXCEPT !.path = "git://" \o e.repository \o "#" \o r.path]

\* only one of the dumps the moniker leads to is looked into
BackendReferencesOneDump(d, path, position) ==
    LET found == findRanges(d, path, position)
        monikers == IF found = <<>> THEN {} ELSE MonikersOf(Innermost(found))
        remote == UNION {LET all == RemoteDumps(mk) \ {d}
                         IN  IF all = {} THEN {}
                             ELSE LET e == CHOOSE x \in all : TRUE
                                  IN  {RemoteLocation(e, r) :
                                          r \in ReferenceRows(e, mk.identifier)}
                         : mk \in monikers}
    IN  references(d, path, position) \o SetToSeq(remote)

\* Backend.references: the local references of the dump, then for each moniker of the
\* innermost range the references rows of that moniker in each dump it leads to
BackendReferences(d, path, position) ==
    LET found == findRanges(d, path, position)
        monikers == IF found = <<>> THEN {} ELSE MonikersOf(Innermost(found))
        remote == UNION {UNION {{RemoteLocation(e, r) : r \in ReferenceRows(e, mk.identifier)}
                                : e \in RemoteDumps(mk) \ {d}}
                         : mk \in monikers}
    IN  references(d, path, position) \o SetToSeq(remote)

\* Backend.exists, Backend.definitions, Backend.references, Backend.hover: the body of
\* the response; without a dump the response is the one of a path that is not indexed
BackendResult(call, d) ==
    LET found == d # NoRow
    IN  CASE call.op = "exists" ->
               [NoResponse EXCEPT !.status = 200,
                                  !.json = IF found /\ exists(d, call.path) THEN "true"
                                           ELSE "false"]
          [] call.op = "references" ->
               [NoResponse EXCEPT !.status = 200,
                                  !.json = IF found THEN "locations" ELSE "null",
                                  !.locations = IF found
                                                THEN BackendReferences(d, call.path,
                                                                       call.position)
                                                ELSE <<>>]
          [] call.op = "definitions" ->
               [NoResponse EXCEPT !.status = 200,
                                  !.json = IF found THEN "locations" ELSE "null",
                                  !.locations = IF found
                                                THEN definitions(d, call.path, call.position)
                                                ELSE <<>>]
          [] OTHER ->
               [NoResponse EXCEPT !.status = 200, !.json = IF found THEN "hover" ELSE "null"]

(***************************************************************************)
(* POST /exists and POST /request (server.ts 294-325).                     *)
(***************************************************************************)
UpperCommit == [type |-> "string", len |-> 40, chars |-> {"0-9", "A-F"}]
MixedCommit == [type |-> "string", len |-> 40, chars |-> {"0-9", "a-f", "A-F"}]
NonHexCommit == [type |-> "string", len |-> 40, chars |-> {"0-9", "g-z"}]
LongCommit == [type |-> "string", len |-> 41, chars |-> {"0-9", "a-f"}]
ArrayCommit == [type |-> "object", len |-> 40, chars |-> {"0-9", "a-f"}]
QueryCommits == {GoodCommit, OtherCommit, ChildCommit, ShortCommit, LongCommit, UpperCommit,
                 MixedCommit, NonHexCommit, ArrayCommit, UndefinedCommit}
QueryRepositories == {"github.com/u/r", "github.com/u/s", Undefined}
FileValues == {"src/index.ts", "src/missing.ts", "src/added.ts", "lib/index.ts", Undefined}
PathValues == {"src/index.ts", "src/missing.ts", "lib/index.ts", "src/app.ts"}
MethodValues == {"definitions", "references", "hover", "implementations", Undefined}
BodyValues == {"json", "too large"}
PositionValues == {[line |-> 1, character |-> 5], [line |-> 5, character |-> 5],
                   [line |-> 9, character |-> 5], [line |-> 13, character |-> 3],
                   [line |-> 16, character |-> 3], [line |-> 1, character |-> 7],
                   [line |-> 2, character |-> 10], [line |-> 2, character |-> 11],
                   [line |-> 2, character |-> 14], [line |-> 3, character |-> 1]}

\* server.ts 353-357: throws (status 400) unless the value is a string
checkFile(file) == file # Undefined

\* server.ts 362-368: throws (status 422) unless the method is a supported one
checkMethod(method, supportedMethods) == method \in supportedMethods

\* throw Object.assign(new Error(message), { status })
Throw(status, message) ==
    /\ qErr' = [thrown |-> TRUE, status |-> status, message |-> message]
    /\ qPc' = "error"
    /\ UNCHANGED <<qResp, headersSent, backendCalls>>

\* backend[op](repository, commit, path, position, ctx) is called and awaited
CallBackend(op, repository, commit, path, position) ==
    /\ backendCalls' = Append(backendCalls, [op |-> op, repository |-> repository,
                                             commit |-> commit, path |-> path,
                                             position |-> position])
    /\ qPc' = "backend"
    /\ UNCHANGED <<qErr, qResp, headersSent>>

\* server.ts 311-322: the body is parsed (at most 1mb), then POST /request up to the call
\* of the backend; the values of the request are drawn from the given sets
RequestBeginFrom(repositories, commits, bodies, paths, positions, methods) ==
    /\ serverPc = "listening"
    /\ qPc = "new"
    /\ \E repository \in repositories, commit \in commits, body \in bodies :
          IF body # "json"
          THEN /\ qReq' = [NoQuery EXCEPT !.endpoint = "request", !.repository = repository,
                                          !.commit = commit, !.body = body]
               /\ Throw(413, "request entity too large")
          ELSE \E path \in paths, position \in positions, method \in methods :
                  /\ qReq' = [NoQuery EXCEPT !.endpoint = "request", !.repository = repository,
                                             !.commit = commit, !.body = body, !.path = path,
                                             !.position = position, !.method = method]
                  /\ IF ~checkRepository(repository)
                     THEN Throw(400, "Must specify the repository")
                     ELSE IF ~checkCommit(commit) THEN Throw(400, "Must specify the commit")
                     ELSE IF ~checkMethod(method, {"definitions", "references", "hover"})
                     THEN Throw(422, "Method must be one of definitions, references, hover")
                     ELSE CallBackend(method, repository, commit, path, position)
    /\ UNCHANGED <<reqVars, fsVars, xrepoVars, queueVars, tipsVars, workerVars, serverPc, starts,
                   migVars, dbVars>>
    /\ NoFault

\* the method of the body is used as it is
RequestBeginNoMethodCheck ==
    /\ serverPc = "listening"
    /\ qPc = "new"
    /\ \E repository \in QueryRepositories, commit \in QueryCommits, body \in BodyValues :
          IF body # "json"
          THEN /\ qReq' = [NoQuery EXCEPT !.endpoint = "request", !.repository = repository,
                                          !.commit = commit, !.body = body]
               /\ Throw(413, "request entity too large")
          ELSE \E path \in PathValues, position \in PositionValues, method \in MethodValues :
                  /\ qReq' = [NoQuery EXCEPT !.endpoint = "request", !.repository = repository,
                                             !.commit = commit, !.body = body, !.path = path,
                                             !.position = position, !.method = method]
                  /\ IF ~checkRepository(repository)
                     THEN Throw(400, "Must specify the repository")
                     ELSE IF ~checkCommit(commit) THEN Throw(400, "Must specify the commit")
                     \* no check of the method
                     ELSE CallBackend(method, repository, commit, path, position)
    /\ UNCHANGED <<reqVars, fsVars, xrepoVars, queueVars, tipsVars, workerVars, serverPc, starts,
                   migVars, dbVars>>
    /\ NoFault

RequestBegin ==
    RequestBeginFrom(QueryRepositories, QueryCommits, BodyValues, PathValues, PositionValues,
                     MethodValues)

\* server.ts 298-304: POST /exists up to the call of the backend; the values of the
\* request are drawn from the given sets
ExistsBeginFrom(repositories, commits, files) ==
    /\ serverPc = "listening"
    /\ qPc = "new"
    /\ \E repository \in repositories, commit \in commits, file \in files :
          /\ qReq' = [NoQuery EXCEPT !.endpoint = "exists", !.repository = repository,
                                     !.commit = commit, !.file = file]
          /\ IF ~checkRepository(repository) THEN Throw(400, "Must specify the repository")
             ELSE IF ~checkCommit(commit) THEN Throw(400, "Must specify the commit")
             ELSE IF ~checkFile(file) THEN Throw(400, "Must specify a file")
             ELSE CallBackend("exists", repository, commit, file, NoQuery.position)
    /\ UNCHANGED <<reqVars, fsVars, xrepoVars, queueVars, tipsVars, workerVars, serverPc, starts,
                   migVars, dbVars>>
    /\ NoFault

\* the file of the query is not handed to the backend
ExistsBeginDropsFile ==
    /\ serverPc = "listening"
    /\ qPc = "new"
    /\ \E repository \in QueryRepositories, commit \in QueryCommits, file \in FileValues :
          /\ qReq' = [NoQuery EXCEPT !.endpoint = "exists", !.repository = repository,
                                     !.commit = commit, !.file = file]
          /\ IF ~checkRepository(repository) THEN Throw(400, "Must specify the repository")
             ELSE IF ~checkCommit(commit) THEN Throw(400, "Must specify the commit")
             ELSE IF ~checkFile(file) THEN Throw(400, "Must specify a file")
             ELSE CallBackend("exists", repository, commit, Undefined, NoQuery.position)
    /\ UNCHANGED <<reqVars, fsVars, xrepoVars, queueVars, tipsVars, workerVars, serverPc, starts,
                   migVars, dbVars>>
    /\ NoFault

ExistsBegin == ExistsBeginFrom(QueryRepositories, QueryCommits, FileValues)

\* server.ts 305, 322: the backend returned; res.json writes the response
BackendReturn ==
    /\ qPc = "backend"
    /\ \E d \in ClosestDumps(backendCalls[Len(backendCalls)]) :
          qResp' = BackendResult(backendCalls[Len(backendCalls)], d)
    /\ headersSent' = TRUE
    /\ qPc' = "done"
    /\ qErr' = qErr
    /\ UNCHANGED <<reqVars, fsVars, xrepoVars, queueVars, tipsVars, workerVars, serverPc, starts,
                   migVars, dbVars, qReq, backendCalls>>
    /\ NoFault

\* server.ts 305, 322: the backend threw (the database or a dump file cannot be read);
\* the error carries no status
BackendThrow ==
    /\ qPc = "backend"
    /\ \E message \in {"backend", ""} :
          qErr' = [thrown |-> TRUE, status |-> 0, message |-> message]
    /\ qPc' = "error"
    /\ UNCHANGED <<qResp, headersSent>>
    /\ UNCHANGED <<reqVars, fsVars, xrepoVars, queueVars, tipsVars, workerVars, serverPc, starts,
                   migVars, dbVars, qReq, backendCalls>>
    /\ Fault

\* server.ts 305, 322: the response was started and writing it failed
RespondThrows ==
    /\ qPc = "backend"
    /\ \E d \in ClosestDumps(backendCalls[Len(backendCalls)]) :
          qResp' = BackendResult(backendCalls[Len(backendCalls)], d)
    /\ headersSent' = TRUE
    /\ qErr' = [thrown |-> TRUE, status |-> 0, message |-> "write"]
    /\ qPc' = "error"
    /\ UNCHANGED <<reqVars, fsVars, xrepoVars, queueVars, tipsVars, workerVars, serverPc, starts,
                   migVars, dbVars, qReq, backendCalls>>
    /\ Fault

\* the error is written whether or not a response was started
HandleErrorWritesAlways ==
    /\ qPc = "error"
    /\ qResp' = [NoResponse EXCEPT !.status = errorHandler(qErr.status),
                                   !.message = IF qErr.message # "" THEN qErr.message
                                               ELSE "Unknown error"]
    /\ headersSent' = TRUE
    /\ qPc' = "done"
    /\ qErr' = qErr
    /\ NoFault
    /\ UNCHANGED <<reqVars, fsVars, xrepoVars, queueVars, tipsVars, workerVars, serverPc, starts,
                   migVars, dbVars, qReq, backendCalls>>

\* server.ts 70-86: the error handler
HandleError ==
    /\ qPc = "error"
    /\ IF ~headersSent
       THEN /\ qResp' = [NoResponse EXCEPT !.status = errorHandler(qErr.status),
                                           !.message = IF qErr.message # "" THEN qErr.message
                                                       ELSE "Unknown error"]
            /\ headersSent' = TRUE
       ELSE UNCHANGED <<qResp, headersSent>>
    /\ qPc' = "done"
    /\ qErr' = qErr
    /\ UNCHANGED <<reqVars, fsVars, xrepoVars, queueVars, tipsVars, workerVars, serverPc, starts,
                   migVars, dbVars, qReq, backendCalls>>
    /\ NoFault

(***************************************************************************)
(* ensureFilenamesAreIDs (server.ts 153-171), called from lsifEndpoints    *)
(* (server.ts 232) before the server listens.                              *)
(***************************************************************************)
\* the loop is entered whether or not the marker exists
MigrateBeginIgnoresMarker ==
    /\ serverPc = "scheduled"
    /\ migPc = "idle"
    /\ migPc' = "loop"
    /\ migTodo' = lsif_dumps
    /\ NoFault
    /\ UNCHANGED <<reqVars, fsVars, xrepoVars, queueVars, tipsVars, workerVars, serverPc, starts,
                   doneFile, oldFiles, queryVars>>

\* server.ts 154-160: the marker does not exist; the dumps are read from the database
MigrateBegin ==
    /\ serverPc = "scheduled"
    /\ migPc = "idle"
    /\ ~doneFile
    /\ migPc' = "loop"
    /\ migTodo' = lsif_dumps
    /\ UNCHANGED <<reqVars, fsVars, xrepoVars, queueVars, tipsVars, workerVars, serverPc, starts,
                   doneFile, oldFiles, queryVars>>
    /\ NoFault

\* server.ts 160-167: one turn of the loop; a dump whose old file does not exist is
\* passed over, the old file of another is renamed to the dump's id-based name.  The
\* dumps are visited in the order the database returned them, which is any order.
MigrateDump ==
    /\ migPc = "loop"
    /\ \E d \in migTodo :
          LET oldFile == dbFilenameOld(d.repository, d.commit)
              newFile == dbFilename(d.id, d.repository, d.commit)
          IN  /\ IF oldFiles[oldFile] = NoDump
                 THEN UNCHANGED <<oldFiles, dumpFiles>>
                 ELSE /\ dumpFiles' = [dumpFiles EXCEPT ![newFile] = oldFiles[oldFile]]
                      /\ oldFiles' = [oldFiles EXCEPT ![oldFile] = NoDump]
              /\ migTodo' = migTodo \ {d}
    /\ UNCHANGED <<reqVars, uploadFile, tmpFiles, xrepoVars, queueVars, tipsVars, workerVars,
                   serverPc, starts, doneFile, migPc, queryVars>>
    /\ NoFault

\* server.ts 166: rename threw; main rejects and the process ends (server.ts 374-378)
MigrateRenameFail ==
    /\ migPc = "loop"
    /\ \E d \in migTodo : oldFiles[dbFilenameOld(d.repository, d.commit)] # NoDump
    /\ migPc' = "idle"
    /\ migTodo' = {}
    /\ serverPc' = "down"
    /\ UNCHANGED <<reqVars, fsVars, xrepoVars, queueVars, tipsVars, workerVars, starts, doneFile,
                   oldFiles, queryVars>>
    /\ Fault

\* the marker is written while dumps are still to be visited
MigrateMarkEarly ==
    /\ migPc = "loop"
    /\ doneFile' = TRUE
    /\ migPc' = "idle"
    /\ migTodo' = {}
    /\ NoFault
    /\ UNCHANGED <<reqVars, fsVars, xrepoVars, queueVars, tipsVars, workerVars, serverPc, starts,
                   oldFiles, queryVars>>

\* server.ts 169-170: the loop is over; the marker is created
MigrateMark ==
    /\ migPc = "loop"
    /\ migTodo = {}
    /\ doneFile' = TRUE
    /\ migPc' = "idle"
    /\ migTodo' = {}
    /\ UNCHANGED <<reqVars, fsVars, xrepoVars, queueVars, tipsVars, workerVars, serverPc, starts,
                   oldFiles, queryVars>>
    /\ NoFault

\* worker.ts 188: the scheduled instance of a repeatable job is due and a worker takes
\* it; the queue schedules the next instance of a job that is still repeatable
TipsStart(every) ==
    /\ every \in tipsDelayed
    /\ every \notin tipsActive
    /\ tipsActive' = tipsActive \cup {every}
    /\ tipsDelayed' = IF every \in repeatable THEN tipsDelayed ELSE tipsDelayed \ {every}
    /\ NoFault
    /\ UNCHANGED <<reqVars, fsVars, xrepoVars, queueVars, repeatable, workerVars, serverVars>>

\* commits.ts: visible_at_tip is set on the dumps of the tip commit of the default
\* branch and cleared on the others
discoverAndUpdateTips(tip) ==
    visibleAtTip' = {d.id : d \in {e \in lsif_dumps : e.commit = tip}}

\* worker.ts 132-140: the update-tips job ran
TipsDone(every) ==
    /\ every \in tipsActive
    /\ tipsActive' = tipsActive \ {every}
    /\ \E tip \in {GoodCommit, OtherCommit} : discoverAndUpdateTips(tip)
    /\ NoFault
    /\ UNCHANGED <<reqVars, fsVars, lsif_dumps, lsif_packages, lsif_references, lsif_commits,
                   nextDumpId, queueVars, repeatable, tipsDelayed, workerVars, serverVars>>

\* worker.ts 132-140: the repository host could not be reached; the job fails and
\* its next instance runs at the next interval
TipsFail(every) ==
    /\ every \in tipsActive
    /\ tipsActive' = tipsActive \ {every}
    /\ Fault
    /\ UNCHANGED <<reqVars, fsVars, xrepoVars, queueVars, repeatable, tipsDelayed, workerVars,
                   serverVars>>

Next ==
    \/ ServerSchedule
    \/ ServerListen
    \/ \E r \in Requests :
          \/ UploadBegin(r)
          \/ UploadPipelineOk(r)
          \/ UploadPipelineFail(r)
          \/ UploadEnqueue(r)
          \/ UploadEnqueueFail(r)
    \/ \E j \in JobIds :
          \/ JobStart(j)
          \/ JobRetry(j)
          \/ ConvertImportOk(j)
          \/ ConvertImportFail(j)
          \/ ConvertRegisterOk(j)
          \/ ConvertRegisterFail(j)
          \/ ConvertRenameOk(j)
          \/ ConvertRenameFail(j)
          \/ ConvertCatch(j)
          \/ ConvertCommitOk(j)
          \/ ConvertCommitFail(j)
          \/ ConvertUnlink(j)

Spec == Init /\ [][Next]_vars

\* the steps of the processor of job j, whatever their outcome
ConvertStep(j) ==
    \/ ConvertImportOk(j)
    \/ ConvertImportFail(j)
    \/ ConvertRegisterOk(j)
    \/ ConvertRegisterFail(j)
    \/ ConvertRenameOk(j)
    \/ ConvertRenameFail(j)
    \/ ConvertCatch(j)
    \/ ConvertCommitOk(j)
    \/ ConvertCommitFail(j)
    \/ ConvertUnlink(j)

\* a worker is running: a waiting job is started, a started processor runs on, and
\* the backoff delay of a failed attempt passes
Fairness ==
    \A j \in JobIds :
        /\ WF_vars(JobStart(j))
        /\ WF_vars(JobRetry(j))
        /\ WF_vars(ConvertStep(j))

\* the behaviours in which every upload is well-formed and validated
LiveNext ==
    \/ ServerSchedule
    \/ ServerListen
    \/ \E r \in Requests :
          \/ UploadBeginFrom(r, {Undefined}, {"valid"})
          \/ UploadPipelineOk(r)
          \/ UploadPipelineFail(r)
          \/ UploadEnqueue(r)
          \/ UploadEnqueueFail(r)
    \/ \E j \in JobIds :
          \/ JobStart(j)
          \/ JobRetry(j)
          \/ ConvertStep(j)

LiveSpec == Init /\ [][LiveNext]_vars /\ Fairness

(***************************************************************************)
(* The update-tips schedule across restarts of the server.  It shares no   *)
(* variable with the uploads and the convert jobs but visible_at_tip, so   *)
(* it is followed on its own, from a database that holds dumps already.    *)
(***************************************************************************)
SchedDumps ==
    {[id |-> 1, repository |-> "github.com/u/r", commit |-> GoodCommit, root |-> ""],
     [id |-> 2, repository |-> "github.com/u/r", commit |-> OtherCommit, root |-> ""]}

SchedInit ==
    /\ reqPc = [r \in Requests |-> "new"]
    /\ req = [r \in Requests |-> NoRequest]
    /\ resp = [r \in Requests |-> 0]
    /\ uploadFile = [r \in Requests |-> NoFile]
    /\ tmpFiles = {}
    /\ dumpFiles = [d \in DumpIds |-> IF d \in {1, 2} THEN [job |-> d, attempt |-> 1] ELSE NoDump]
    /\ lsif_dumps = SchedDumps
    /\ visibleAtTip = {}
    /\ lsif_packages = {}
    /\ lsif_references = {}
    /\ lsif_commits = {}
    /\ nextDumpId = 3
    /\ jobState = [j \in JobIds |-> "none"]
    /\ jobArgs = [j \in JobIds |-> NoJob]
    /\ attemptsMade = [j \in JobIds |-> 0]
    /\ failedReason = [j \in JobIds |-> "none"]
    /\ nextJobId = 1
    /\ repeatable = {}
    /\ tipsDelayed = {}
    /\ tipsActive = {}
    /\ pc = [j \in JobIds |-> "idle"]
    /\ thrown = [j \in JobIds |-> "none"]
    /\ dump = [j \in JobIds |-> 0]
    /\ serverPc = "down"
    /\ starts = 0
    /\ doneFile = TRUE
    /\ oldFiles = [n \in OldNames |-> NoDump]
    /\ migPc = "idle"
    /\ migTodo = {}
    /\ qPc = "new"
    /\ qReq = NoQuery
    /\ qErr = NoError
    /\ qResp = NoResponse
    /\ headersSent = FALSE
    /\ backendCalls = <<>>
    /\ itemEdges = {}
    /\ rangeOrder = AppRangesInOrder
    /\ ImporterIdle
    /\ CachesIdle /\ SearchIdle
    /\ faults = 0

SchedNext ==
    \/ ServerSchedule
    \/ ServerListen
    \/ ServerStop
    \/ \E every \in Intervals :
          \/ TipsStart(every)
          \/ TipsDone(every)
          \/ TipsFail(every)

SchedSpec == SchedInit /\ [][SchedNext]_vars

(***************************************************************************)
(* The filename migration across starts of the server, from a storage root *)
(* the version before ids left behind: every dump has a row, and its data  *)
(* is in a file of the old name, in a file of the id-based name (an        *)
(* earlier run renamed it) or in no file.  The old scheme names a file by  *)
(* repository and commit, so no two of its dumps share a name.             *)
(***************************************************************************)
MigDumps ==
    {[id |-> 1, repository |-> "github.com/u/r", commit |-> GoodCommit, root |-> ""],
     [id |-> 2, repository |-> "github.com/u/r", commit |-> OtherCommit, root |-> ""],
     [id |-> 3, repository |-> "github.com/u/s", commit |-> GoodCommit, root |-> ""]}

\* the data of dump id, as the conversion that produced it wrote it
DataOf(id) == [job |-> id, attempt |-> 1]

MigInit ==
    /\ reqPc = [r \in Requests |-> "new"]
    /\ req = [r \in Requests |-> NoRequest]
    /\ resp = [r \in Requests |-> 0]
    /\ uploadFile = [r \in Requests |-> NoFile]
    /\ tmpFiles = {}
    /\ lsif_dumps = MigDumps
    /\ \E place \in [{1, 2, 3} -> {"old", "new", "none"}] :
          /\ oldFiles = [n \in OldNames |->
                            IF \E d \in MigDumps : n = dbFilenameOld(d.repository, d.commit)
                                                     /\ place[d.id] = "old"
                            THEN DataOf((CHOOSE d \in MigDumps :
                                            n = dbFilenameOld(d.repository, d.commit)).id)
                            ELSE NoDump]
          /\ dumpFiles = [i \in DumpIds |->
                             IF i \in {1, 2, 3} /\ place[i] = "new" THEN DataOf(i) ELSE NoDump]
          /\ doneFile = (\A i \in {1, 2, 3} : place[i] = "new")
    /\ visibleAtTip = {}
    /\ lsif_packages = {}
    /\ lsif_references = {}
    /\ lsif_commits = {}
    /\ nextDumpId = 4
    /\ jobState = [j \in JobIds |-> "none"]
    /\ jobArgs = [j \in JobIds |-> NoJob]
    /\ attemptsMade = [j \in JobIds |-> 0]
    /\ failedReason = [j \in JobIds |-> "none"]
    /\ nextJobId = 1
    /\ repeatable = {}
    /\ tipsDelayed = {}
    /\ tipsActive = {}
    /\ pc = [j \in JobIds |-> "idle"]
    /\ thrown = [j \in JobIds |-> "none"]
    /\ dump = [j \in JobIds |-> 0]
    /\ serverPc = "down"
    /\ starts = 0
    /\ migPc = "idle"
    /\ migTodo = {}
    /\ qPc = "new"
    /\ qReq = NoQuery
    /\ qErr = NoError
    /\ qResp = NoResponse
    /\ headersSent = FALSE
    /\ backendCalls = <<>>
    /\ itemEdges = {}
    /\ rangeOrder = AppRangesInOrder
    /\ ImporterIdle
    /\ CachesIdle /\ SearchIdle
    /\ faults = 0

MigNext ==
    \/ ServerSchedule
    \/ MigrateBegin
    \/ MigrateDump
    \/ MigrateRenameFail
    \/ MigrateMark
    \/ ServerListen
    \/ ServerStop

MigSpec == MigInit /\ [][MigNext]_vars

(***************************************************************************)
(* The migration on a storage root in which two dumps of one repository    *)
(* and commit, of different roots, exist: dump 1 was converted under the   *)
(* old scheme and its file bears the old name; dump 2, of the root lib,    *)
(* was registered by a worker of the new version, which has or has not     *)
(* yet written its file 2.lsif.db (worker.ts 100-105 runs without regard   *)
(* to the migration of the server process).                                *)
(***************************************************************************)
SharedDumps ==
    {[id |-> 1, repository |-> "github.com/u/r", commit |-> GoodCommit, root |-> ""],
     [id |-> 2, repository |-> "github.com/u/r", commit |-> GoodCommit, root |-> "lib"],
     [id |-> 3, repository |-> "github.com/u/s", commit |-> GoodCommit, root |-> ""]}

MigSharedInit ==
    /\ reqPc = [r \in Requests |-> "new"]
    /\ req = [r \in Requests |-> NoRequest]
    /\ resp = [r \in Requests |-> 0]
    /\ uploadFile = [r \in Requests |-> NoFile]
    /\ tmpFiles = {}
    /\ lsif_dumps = SharedDumps
    /\ \E converted \in BOOLEAN, place \in {"old", "new", "none"} :
          /\ oldFiles = [n \in OldNames |->
                            IF n = dbFilenameOld("github.com/u/r", GoodCommit) THEN DataOf(1)
                            ELSE IF n = dbFilenameOld("github.com/u/s", GoodCommit)
                                      /\ place = "old" THEN DataOf(3)
                            ELSE NoDump]
          /\ dumpFiles = [i \in DumpIds |->
                             IF i = 2 /\ converted THEN DataOf(2)
                             ELSE IF i = 3 /\ place = "new" THEN DataOf(3)
                             ELSE NoDump]
          /\ doneFile = FALSE
    /\ visibleAtTip = {}
    /\ lsif_packages = {}
    /\ lsif_references = {}
    /\ lsif_commits = {}
    /\ nextDumpId = 4
    /\ jobState = [j \in JobIds |-> "none"]
    /\ jobArgs = [j \in JobIds |-> NoJob]
    /\ attemptsMade = [j \in JobIds |-> 0]
    /\ failedReason = [j \in JobIds |-> "none"]
    /\ nextJobId = 1
    /\ repeatable = {}
    /\ tipsDelayed = {}
    /\ tipsActive = {}
    /\ pc = [j \in JobIds |-> "idle"]
    /\ thrown = [j \in JobIds |-> "none"]
    /\ dump = [j \in JobIds |-> 0]
    /\ serverPc = "down"
    /\ starts = 0
    /\ migPc = "idle"
    /\ migTodo = {}
    /\ qPc = "new"
    /\ qReq = NoQuery
    /\ qErr = NoError
    /\ qResp = NoResponse
    /\ headersSent = FALSE
    /\ backendCalls = <<>>
    /\ itemEdges = {}
    /\ rangeOrder = AppRangesInOrder
    /\ ImporterIdle
    /\ CachesIdle /\ SearchIdle
    /\ faults = 0

MigSharedSpec == MigSharedInit /\ [][MigNext]_vars

(***************************************************************************)
(* The queries, against a storage root that holds the dump of the test of  *)
(* Database.references for one commit of one repository.                   *)
(***************************************************************************)
QueryInitOn(dumps, packageRows, referenceRows, edges, orders) ==
    /\ reqPc = [r \in Requests |-> "new"]
    /\ req = [r \in Requests |-> NoRequest]
    /\ resp = [r \in Requests |-> 0]
    /\ uploadFile = [r \in Requests |-> NoFile]
    /\ tmpFiles = {}
    /\ dumpFiles = [d \in DumpIds |-> IF \E row \in dumps : row.id = d
                                       THEN [job |-> 1, attempt |-> 1] ELSE NoDump]
    /\ lsif_dumps = dumps
    /\ visibleAtTip = {}
    /\ lsif_packages = packageRows
    /\ lsif_references = referenceRows
    /\ lsif_commits = {<<d.repository, d.commit>> : d \in dumps}
    /\ nextDumpId = Cardinality(dumps) + 1
    /\ jobState = [j \in JobIds |-> "none"]
    /\ jobArgs = [j \in JobIds |-> NoJob]
    /\ attemptsMade = [j \in JobIds |-> 0]
    /\ failedReason = [j \in JobIds |-> "none"]
    /\ nextJobId = 1
    /\ repeatable = {}
    /\ tipsDelayed = {}
    /\ tipsActive = {}
    /\ pc = [j \in JobIds |-> "idle"]
    /\ thrown = [j \in JobIds |-> "none"]
    /\ dump = [j \in JobIds |-> 0]
    /\ serverPc = "down"
    /\ starts = 0
    /\ doneFile = TRUE
    /\ oldFiles = [n \in OldNames |-> NoDump]
    /\ migPc = "idle"
    /\ migTodo = {}
    /\ qPc = "new"
    /\ qReq = NoQuery
    /\ qErr = NoError
    /\ qResp = NoResponse
    /\ headersSent = FALSE
    /\ backendCalls = <<>>
    /\ itemEdges \in edges
    /\ rangeOrder \in orders
    /\ ImporterIdle
    /\ CachesIdle /\ SearchIdle
    /\ faults = 0

\* the storage root and the database hold the dump the test converts
QueryInit ==
    QueryInitOn({[id |-> 1, repository |-> "github.com/u/r", commit |-> GoodCommit,
                  root |-> ""]}, {}, {}, SUBSET PossibleItemEdges, {AppRangesInOrder})

QueryNext ==
    \/ ServerSchedule
    \/ ServerListen
    \/ ExistsBegin
    \/ RequestBegin
    \/ BackendReturn
    \/ BackendThrow
    \/ RespondThrows
    \/ HandleError

QuerySpec == QueryInit /\ [][QueryNext]_vars

(***************************************************************************)
(* The queries against a database that holds dumps of several commits of   *)
(* a repository, under several roots.                                      *)
(***************************************************************************)
\* the (repository, commit, root) a dump may exist for
BackendKeys ==
    << <<"github.com/u/r", OtherCommit, "">>,
       <<"github.com/u/r", OtherCommit, "lib">>,
       <<"github.com/u/r", GoodCommit, "">>,
       <<"github.com/u/r", ChildCommit, "">>,
       <<"github.com/u/s", GoodCommit, "">>,
       <<"github.com/u/t", GoodCommit, "">> >>

\* the dump rows of the keys at the given indices, with ids in the order of insertion
BackendDumps(I) ==
    {[id |-> Cardinality({j \in I : j <= i}), repository |-> BackendKeys[i][1],
      commit |-> BackendKeys[i][2], root |-> BackendKeys[i][3]] : i \in I}

BackendInit ==
    \E I \in SUBSET (1 .. Len(BackendKeys)) :
        /\ Cardinality(I) <= Cardinality(DumpIds)
        /\ QueryInitOn(BackendDumps(I),
                       UNION {{[dump_id |-> d.id, package |-> pk] : pk \in ExportsOf(d)}
                                 : d \in BackendDumps(I)},
                       UNION {{[dump_id |-> d.id, package |-> pk] : pk \in ImportsOf(d)}
                                 : d \in BackendDumps(I)},
                       {{<<"refA", "refI">>, <<"refB", "refI">>}}, {AppRangesInOrder})

BackendSpec == BackendInit /\ [][QueryNext]_vars

(***************************************************************************)
(* The queries against the dump of a repository whose document src/app.ts  *)
(* holds nested and overlapping ranges, stored in any order.               *)
(***************************************************************************)
\* the orders in which the document can store its ranges
RangeOrders ==
    {s \in [1 .. Cardinality(AppRanges) -> AppRanges] :
        \A i, j \in 1 .. Cardinality(AppRanges) : s[i] = s[j] => i = j}

RangeInit ==
    QueryInitOn({[id |-> 1, repository |-> "github.com/u/s", commit |-> GoodCommit,
                  root |-> ""]}, {}, {}, {{}}, RangeOrders)

RangeSpec == RangeInit /\ [][QueryNext]_vars

(***************************************************************************)
(* The start of the server process with requests arriving at any time:     *)
(* main (server.ts 93-147) on a storage root that may need the migration,  *)
(* and the three endpoints.                                                *)
(***************************************************************************)
StartNext ==
    \/ MigNext
    \/ \E r \in Requests : UploadBeginFrom(r, {"true"}, {"valid"})
    \/ ExistsBeginFrom({"github.com/u/r"}, {GoodCommit, ShortCommit}, {"src/index.ts"})
    \/ RequestBeginFrom({"github.com/u/r"}, {GoodCommit}, {"json"}, {"src/index.ts"},
                        {[line |-> 1, character |-> 5]}, {"definitions"})
    \/ BackendReturn
    \/ BackendThrow
    \/ RespondThrows
    \/ HandleError

StartSpec == MigInit /\ [][StartNext]_vars

(***************************************************************************)
(* The importer (convertLsif, called at worker.ts 97; lsif/src/importer.ts *)
(* is not part of the sources at hand and is modelled from the             *)
(* specification's sections 3, 4.1 and 4.3).  The input is the LSIF graph  *)
(* of two documents: a.ts with the ranges 21 and 22, b.ts with the range   *)
(* 23; the definition result 10 and the hover result 12 are attached to    *)
(* range 21, the reference result 11 to the ranges 21 and 22, the          *)
(* reference result 13 and the hover result 12 to range 23.  The item      *)
(* edges of the three results vary, and may name the range 24 that the     *)
(* input does not hold.                                                    *)
(***************************************************************************)
InputDocuments == {"a.ts", "b.ts"}
InputRanges == {21, 22, 23}
DocumentOfRange(r) == IF r = 23 THEN "b.ts" ELSE "a.ts"
InputResults == {10, 11, 13}
InputHovers == {12}
\* the result vertices attached to a range (0: none)
AttachedTo(r) ==
    CASE r = 21 -> [definitionResult |-> 10, referenceResult |-> 11, hoverResult |-> 12]
      [] r = 22 -> [definitionResult |-> 0, referenceResult |-> 11, hoverResult |-> 0]
      [] OTHER -> [definitionResult |-> 0, referenceResult |-> 13, hoverResult |-> 12]
\* the targets of item edges: <<document, range>>
ItemTargets == {<<"a.ts", 21>>, <<"a.ts", 22>>, <<"b.ts", 23>>, <<"b.ts", 24>>}
\* the metaData versions: a supported one and one that is not
LsifVersions == {"0.4.3", "0.1.0"}
\* the number of results a chunk is meant to hold
TARGET_CHUNK_SIZE == 2

\* the inputs: each result has at most two item edges
LsifInputs ==
    {[version |-> v, items |-> it] :
        v \in LsifVersions,
        it \in {f \in [InputResults -> SUBSET ItemTargets] :
                   \A x \in InputResults : Cardinality(f[x]) <= 2}}

\* the variables the importer leaves alone
outsideImporter ==
    <<reqVars, fsVars, xrepoVars, queueVars, tipsVars, workerVars, serverPc, starts, migVars,
      qPc, qReq, qErr, qResp, headersSent, backendCalls, itemEdges, rangeOrder, cacheVars,
      searchVars, faults>>

\* ingest pass: every element is read; an unsupported version or an item edge to an id
\* the input does not hold fails the import
ImportIngest ==
    /\ importPc = "idle"
    /\ lsifInput # NoInput
    /\ IF lsifInput.version # "0.4.3"
       THEN importPc' = "failed" /\ importError' = "UnsupportedVersion"
       ELSE IF \E x \in InputResults : \E t \in lsifInput.items[x] : t[2] \notin InputRanges
       THEN importPc' = "failed" /\ importError' = "DanglingReference"
       ELSE importPc' = "ingested" /\ importError' = importError
    /\ UNCHANGED <<lsifInput, dumpStore, outsideImporter>>

\* a result without an item edge is taken for a violation of the schema (the
\* specification names no behaviour for it: an importer may also accept it)
ImportRejectEmptyResult ==
    /\ importPc = "ingested"
    /\ \E x \in InputResults : lsifInput.items[x] = {}
    /\ importPc' = "failed"
    /\ importError' = "MalformedInput"
    /\ UNCHANGED <<lsifInput, dumpStore, outsideImporter>>

\* emit pass: the small dense id of an id of the input among the ids of its kind
DenseId(S, id) == Cardinality({x \in S : x <= id})

\* the number of result chunks of a dump with the given number of results
NumResultChunks(totalResults) ==
    LET n == (totalResults + TARGET_CHUNK_SIZE - 1) \div TARGET_CHUNK_SIZE
    IN  IF n < 1 THEN 1 ELSE n

\* the shard of a result is taken from the id the input gave it
hashKeyOfInputId(id, numResultChunks) ==
    (CHOOSE x \in InputResults : DenseId(InputResults, x) = id) % numResultChunks

\* the shard of a result id
hashKey(id, numResultChunks) == id % numResultChunks

\* emit pass: documents, ranges and results are given dense ids; each definition and
\* reference result is written with its members to the chunk of its shard, the hover
\* results to the hover table; the meta row holds the number of chunks
ImportEmit ==
    /\ importPc = "ingested"
    /\ LET n == NumResultChunks(Cardinality(InputResults))
           dense(x) == IF x = 0 THEN 0 ELSE DenseId(InputResults, x)
       IN  dumpStore' =
             [numResultChunks |-> n,
              documents |-> [p \in InputDocuments |->
                               {DenseId(InputRanges, r) :
                                   r \in {q \in InputRanges : DocumentOfRange(q) = p}}],
              ranges |-> [i \in {DenseId(InputRanges, r) : r \in InputRanges} |->
                            LET r == CHOOSE q \in InputRanges : DenseId(InputRanges, q) = i
                            IN  [definitionResultId |-> dense(AttachedTo(r).definitionResult),
                                 referenceResultId |-> dense(AttachedTo(r).referenceResult),
                                 hoverResultId |-> AttachedTo(r).hoverResult]],
              resultChunks |-> [k \in 0 .. (n - 1) |->
                                  [i \in {dense(x) : x \in {y \in InputResults :
                                                              hashKey(dense(y), n) = k}} |->
                                     LET x == CHOOSE y \in InputResults : dense(y) = i
                                     IN  {<<t[1], DenseId(InputRanges, t[2])>> :
                                             t \in lsifInput.items[x]}]],
              hoverResults |-> [h \in InputHovers |-> "hover"]]
    /\ importPc' = "written"
    /\ UNCHANGED <<lsifInput, importError, outsideImporter>>

ImportInit ==
    /\ InitProcesses
    /\ lsifInput \in LsifInputs
    /\ importPc = "idle"
    /\ importError = "none"
    /\ dumpStore = NoStore
    /\ CachesIdle /\ SearchIdle

ImportNext ==
    \/ ImportIngest
    \/ ImportRejectEmptyResult
    \/ ImportEmit

ImportSpec == ImportInit /\ [][ImportNext]_vars

(***************************************************************************)
(* The cache tier (ConnectionCache, DocumentCache and ResultChunkCache,    *)
(* constructed at part_000 19-21 and handed to each Database at 58-64;     *)
(* lsif/src/cache.ts and database.ts are not part of the sources at hand   *)
(* and are modelled from the specification's sections 4.2, 4.4 and 5).     *)
(* A query runs on the Database of one dump: withEntry on the connection   *)
(* cache, under it withEntry on the document cache, under that withEntry   *)
(* on the result-chunk cache; a query over several dumps goes through      *)
(* them one after the other.                                               *)
(***************************************************************************)
outsideCaches ==
    <<reqVars, fsVars, xrepoVars, queueVars, tipsVars, workerVars, serverPc, starts, migVars,
      qPc, qReq, qErr, qResp, headersSent, backendCalls, itemEdges, rangeOrder, importVars,
      searchVars, faults>>

\* a sequence without its i-th element
Without(seq, i) == SubSeq(seq, 1, i - 1) \o SubSeq(seq, i + 1, Len(seq))
\* the elements of a list
Elements(s) == {s[i] : i \in 1 .. Len(s)}

RECURSIVE EvictAny(_, _, _)
\* eviction that takes the least recently used entry, pinned or not
EvictAny(entries, c, lru) ==
    IF Len(lru) <= CacheCapacity THEN lru ELSE EvictAny(entries, c, Tail(lru))

RECURSIVE EvictFrom(_, _, _)
\* eviction: while the cache holds more than its capacity, the least recently used of
\* the entries that are not pinned is removed; the keys that stay, in LRU order
EvictFrom(entries, c, lru) ==
    IF Len(lru) <= CacheCapacity
    THEN lru
    ELSE LET free == {i \in 1 .. Len(lru) :
                        /\ entries[<<c, lru[i]>>].state = "ready"
                        /\ entries[<<c, lru[i]>>].refs = 0}
         IN  IF free = {}
             THEN lru
             ELSE EvictFrom(entries, c, Without(lru, CHOOSE i \in free : \A j \in free : i <= j))

\* the end of every cache operation: cache c is brought back under its capacity as far
\* as the pins allow; an evicted connection entry has its handle closed
Settle(entries, c, lru) ==
    LET kept == EvictFrom(entries, c, lru)
        gone == Elements(lru) \ Elements(kept)
    IN  /\ cacheLru' = [cacheLru EXCEPT ![c] = kept]
        /\ cacheEntries' = [k \in CacheKeys |->
                              IF k[1] = c /\ k[2] \in gone THEN NoEntry ELSE entries[k]]
        /\ closedHandles' =
              IF c = "connection"
              THEN closedHandles \cup {<<d, entries[<<c, d>>].gen>> : d \in gone}
              ELSE closedHandles

\* the LRU order of a cache after key d was used
Touched(lru, d) ==
    IF d \in Elements(lru)
    THEN Without(lru, CHOOSE i \in 1 .. Len(lru) : lru[i] = d) \o <<d>>
    ELSE lru \o <<d>>

\* a query starts on the Database of dump d
CacheQueryStart(q, d) ==
    /\ cacheQuery[q].pc \in {"idle", "ended"}
    /\ queryRuns < MaxQueryRuns
    /\ queryRuns' = queryRuns + 1
    /\ cacheQuery' = [cacheQuery EXCEPT ![q] = [IdleQuery EXCEPT !.pc = "run", !.dump = d,
                                                               !.visited = {d}]]
    /\ UNCHANGED <<cacheEntries, cacheLru, factoryCalls, closedHandles, outsideCaches>>

\* withEntry that invokes the factory again for an entry whose promise is pending
WithEntryNoCoalescing(q) ==
    /\ cacheQuery[q].pc = "run"
    /\ Len(cacheQuery[q].pins) < Len(CacheOrder)
    /\ LET c == CacheOrder[Len(cacheQuery[q].pins) + 1]
           d == cacheQuery[q].dump
           k == <<c, d>>
           e == cacheEntries[k]
       IN  CASE e.state \in {"absent", "pending"} ->
                  /\ factoryCalls[k] < MaxFactoryCalls
                  /\ factoryCalls' = [factoryCalls EXCEPT ![k] = @ + 1]
                  /\ cacheQuery' = [cacheQuery EXCEPT ![q].pc = "wait",
                                                      ![q].pins = Append(@, k)]
                  /\ Settle([cacheEntries EXCEPT ![k] = [state |-> "pending",
                                                         refs |-> e.refs + 1,
                                                         gen |-> factoryCalls[k] + 1]],
                            c, Touched(cacheLru[c], d))
             [] OTHER ->
                  /\ factoryCalls' = factoryCalls
                  /\ cacheQuery' = [cacheQuery EXCEPT ![q].pins = Append(@, k),
                                                      ![q].vals[c] = e.gen]
                  /\ Settle([cacheEntries EXCEPT ![k].refs = @ + 1], c,
                            Touched(cacheLru[c], d))
    /\ UNCHANGED <<queryRuns, outsideCaches>>

\* withEntry(key, factory, user), up to the call of user: on a miss the entry is created
\* and the factory invoked; a caller that finds the factory's promise pending waits for
\* it; a caller that finds the value is handed it.  The entry is pinned for the caller.
WithEntry(q) ==
    /\ cacheQuery[q].pc = "run"
    /\ Len(cacheQuery[q].pins) < Len(CacheOrder)
    /\ LET c == CacheOrder[Len(cacheQuery[q].pins) + 1]
           d == cacheQuery[q].dump
           k == <<c, d>>
           e == cacheEntries[k]
       IN  CASE e.state = "absent" ->
                  /\ factoryCalls[k] < MaxFactoryCalls
                  /\ factoryCalls' = [factoryCalls EXCEPT ![k] = @ + 1]
                  /\ cacheQuery' = [cacheQuery EXCEPT ![q].pc = "wait",
                                                      ![q].pins = Append(@, k)]
                  /\ Settle([cacheEntries EXCEPT ![k] = [state |-> "pending", refs |-> 1,
                                                         gen |-> factoryCalls[k] + 1]],
                            c, Touched(cacheLru[c], d))
             [] e.state = "pending" ->
                  /\ factoryCalls' = factoryCalls
                  /\ cacheQuery' = [cacheQuery EXCEPT ![q].pc = "wait",
                                                      ![q].pins = Append(@, k)]
                  /\ Settle([cacheEntries EXCEPT ![k].refs = @ + 1], c, cacheLru[c])
             [] OTHER ->
                  /\ factoryCalls' = factoryCalls
                  /\ cacheQuery' = [cacheQuery EXCEPT ![q].pins = Append(@, k),
                                                      ![q].vals[c] = e.gen]
                  /\ Settle([cacheEntries EXCEPT ![k].refs = @ + 1], c,
                            Touched(cacheLru[c], d))
    /\ UNCHANGED <<queryRuns, outsideCaches>>

\* the queries that wait for the factory of entry k
Waiters(k) ==
    {q \in CacheQueries :
        /\ cacheQuery[q].pc = "wait"
        /\ cacheQuery[q].pins[Len(cacheQuery[q].pins)] = k}

\* the queries whose innermost pin is on entry k
HoldersOnTop(k) ==
    {q \in CacheQueries :
        /\ cacheQuery[q].pins # <<>>
        /\ cacheQuery[q].pins[Len(cacheQuery[q].pins)] = k}

\* the factory's promise resolves: the value is stored, and handed to every waiter
FactoryResolves(k) ==
    /\ cacheEntries[k].state = "pending"
    /\ cacheQuery' = [q \in CacheQueries |->
                        IF q \in Waiters(k)
                        THEN [cacheQuery[q] EXCEPT !.pc = "run",
                                                   !.vals[k[1]] = cacheEntries[k].gen]
                        ELSE cacheQuery[q]]
    /\ Settle([cacheEntries EXCEPT ![k].state = "ready"], k[1], cacheLru[k[1]])
    /\ UNCHANGED <<factoryCalls, queryRuns, outsideCaches>>

\* the factory's promise rejects: no entry stays, and every waiter fails with the error
FactoryRejects(k) ==
    /\ cacheEntries[k].state = "pending"
    /\ cacheQuery' = [q \in CacheQueries |->
                        IF q \in HoldersOnTop(k)
                        THEN [cacheQuery[q] EXCEPT
                                 !.pc = "unwind",
                                 !.pins = SubSeq(@, 1, Len(@) - 1),
                                 !.outcome = IF cacheQuery[q].pc = "wait" THEN "failed" ELSE @]
                        ELSE cacheQuery[q]]
    /\ cacheEntries' = [cacheEntries EXCEPT ![k] = NoEntry]
    /\ cacheLru' = [cacheLru EXCEPT ![k[1]] =
                       Without(@, CHOOSE i \in 1 .. Len(@) : @[i] = k[2])]
    /\ UNCHANGED <<factoryCalls, closedHandles, queryRuns, outsideCaches>>

\* the user callback reads through the database handle it was handed
UseHandle(q) ==
    /\ cacheQuery[q].pc = "run"
    /\ cacheQuery[q].vals["connection"] # 0
    /\ cacheQuery' = [cacheQuery EXCEPT ![q].used =
                        IF <<cacheQuery[q].dump, cacheQuery[q].vals["connection"]>>
                              \in closedHandles
                        THEN "closed" ELSE "open"]
    /\ UNCHANGED <<cacheEntries, cacheLru, factoryCalls, closedHandles, queryRuns,
                   outsideCaches>>

\* a cancelled query that is dropped without its withEntry calls unwinding
QueryStopsNoUnwind(q, outcome) ==
    /\ cacheQuery[q].pc \in {"run", "wait"}
    /\ outcome \in {"completed", "failed", "cancelled"}
    /\ outcome = "completed" =>
          /\ cacheQuery[q].pc = "run"
          /\ Len(cacheQuery[q].pins) = Len(CacheOrder)
          /\ cacheQuery[q].used # "none"
    /\ cacheQuery' = [cacheQuery EXCEPT ![q].pc = IF outcome = "cancelled" THEN "ended"
                                                  ELSE "unwind",
                                        ![q].outcome = outcome]
    /\ UNCHANGED <<cacheEntries, cacheLru, factoryCalls, closedHandles, queryRuns,
                   outsideCaches>>

\* the work of the query on its dump stops: the user callbacks have returned, one of them
\* has thrown, or the request was cancelled (at any suspension point); the withEntry
\* calls unwind
QueryStops(q, outcome) ==
    /\ cacheQuery[q].pc \in {"run", "wait"}
    /\ outcome \in {"completed", "failed", "cancelled"}
    /\ outcome = "completed" =>
          /\ cacheQuery[q].pc = "run"
          /\ Len(cacheQuery[q].pins) = Len(CacheOrder)
          /\ cacheQuery[q].used # "none"
    /\ cacheQuery' = [cacheQuery EXCEPT ![q].pc = "unwind", ![q].outcome = outcome]
    /\ UNCHANGED <<cacheEntries, cacheLru, factoryCalls, closedHandles, queryRuns,
                   outsideCaches>>

\* withEntry, after the call of user: the innermost pin is released, and the cache may
\* evict
Release(q) ==
    /\ cacheQuery[q].pc = "unwind"
    /\ cacheQuery[q].pins # <<>>
    /\ LET k == cacheQuery[q].pins[Len(cacheQuery[q].pins)]
       IN  /\ cacheQuery' = [cacheQuery EXCEPT ![q].pins = SubSeq(@, 1, Len(@) - 1),
                                               ![q].vals[k[1]] = 0]
           /\ Settle([cacheEntries EXCEPT ![k].refs = @ - 1], k[1], cacheLru[k[1]])
    /\ UNCHANGED <<factoryCalls, queryRuns, outsideCaches>>

\* a query over several dumps goes on to the Database of the next dump
NextDatabase(q, d) ==
    /\ cacheQuery[q].pc = "unwind"
    /\ cacheQuery[q].pins = <<>>
    /\ cacheQuery[q].outcome = "completed"
    /\ d \notin cacheQuery[q].visited
    /\ cacheQuery' = [cacheQuery EXCEPT ![q].pc = "run", ![q].dump = d,
                                        ![q].visited = @ \cup {d},
                                        ![q].outcome = "none", ![q].used = "none"]
    /\ UNCHANGED <<cacheEntries, cacheLru, factoryCalls, closedHandles, queryRuns,
                   outsideCaches>>

\* the query ends: its result, or its error, goes to the caller
QueryEnds(q) ==
    /\ cacheQuery[q].pc = "unwind"
    /\ cacheQuery[q].pins = <<>>
    /\ cacheQuery' = [cacheQuery EXCEPT ![q] = [IdleQuery EXCEPT
                                                   !.pc = "ended",
                                                   !.outcome = cacheQuery[q].outcome]]
    /\ UNCHANGED <<cacheEntries, cacheLru, factoryCalls, closedHandles, queryRuns,
                   outsideCaches>>

CacheInit == InitProcesses /\ ImporterIdle /\ CachesIdle /\ SearchIdle

CacheNext ==
    \/ \E q \in CacheQueries, d \in CacheDumps : CacheQueryStart(q, d)
    \/ \E q \in CacheQueries : WithEntry(q)
    \/ \E k \in CacheKeys : FactoryResolves(k)
    \/ \E k \in CacheKeys : FactoryRejects(k)
    \/ \E q \in CacheQueries : UseHandle(q)
    \/ \E q \in CacheQueries, outcome \in {"completed", "failed", "cancelled"} :
          QueryStops(q, outcome)
    \/ \E q \in CacheQueries : Release(q)
    \/ \E q \in CacheQueries, d \in CacheDumps : NextDatabase(q, d)
    \/ \E q \in CacheQueries : QueryEnds(q)

CacheSpec == CacheInit /\ [][CacheNext]_vars

(***************************************************************************)
(* searchResolver.doResults (docs/jobs.md 800-1060): the search of each    *)
(* result type runs in a goroutine of its own; the goroutines of symbol    *)
(* search and of file/path search merge their matches per file URI in the  *)
(* map fileMatches and append to the slice results, each under its mutex.  *)
(* doResults waits for both wait groups before results is read.            *)
(***************************************************************************)
outsideSearch ==
    <<reqVars, fsVars, xrepoVars, queueVars, tipsVars, workerVars, serverPc, starts, migVars,
      qPc, qReq, qErr, qResp, headersSent, backendCalls, itemEdges, rangeOrder, importVars,
      cacheVars, faults>>

\* what the searches return: lists of distinct file URIs, an error that is reported
\* ("failed") or a context error ("timeout"), a common that may be nil
DistinctLists ==
    {<<>>} \cup {<<u>> : u \in URIs} \cup {p \in URIs \X URIs : p[1] # p[2]}
ErrVectors ==
    {[repo |-> "none", symbol |-> "none", file |-> "none"],
     [repo |-> "none", symbol |-> "failed", file |-> "failed"],
     [repo |-> "none", symbol |-> "timeout", file |-> "none"],
     [repo |-> "failed", symbol |-> "none", file |-> "failed"]}
SearchInputs ==
    {[g \in Goroutines |->
         [matches |-> CASE g = "symbol" -> sm [] g = "file" -> fm [] OTHER -> rm,
          err |-> ev[g],
          common |-> IF g = "symbol" THEN sc ELSE TRUE,
          limitHit |-> IF g = "file" THEN lh ELSE FALSE]] :
        sm \in DistinctLists, fm \in DistinctLists,
        rm \in {<<>>, <<"github.com/u/r">>}, ev \in ErrVectors,
        sc \in BOOLEAN, lh \in BOOLEAN}

\* the key of the match the range loop of g stands at
key(g) == searchOut[g].matches[goIdx[g]]
\* where a goroutine continues after its error was looked at
AfterErr(g) ==
    IF g \in MergeGoroutines THEN "loop"
    ELSE IF searchOut[g].matches # <<>> THEN "lockResults" ELSE "common"

\* 881, 911, 949: the search of the goroutine returns
SearchReturns(g) ==
    /\ goPc[g] = "search"
    /\ goPc' = [goPc EXCEPT ![g] = IF searchOut[g].err = "failed" THEN "reportErr"
                                     ELSE AfterErr(g)]
    /\ UNCHANGED <<searchOut, goIdx, mutex, fileMatches, matchHeap, resultsSlice, multiErr,
                   common, mainPc, statsVars, outsideSearch>>

\* 884, 914, 952: multiErrMu.Lock()
LockMultiErr(g) ==
    /\ goPc[g] = "reportErr"
    /\ mutex["multiErrMu"] = "free"
    /\ mutex' = [mutex EXCEPT !["multiErrMu"] = g]
    /\ goPc' = [goPc EXCEPT ![g] = "appendErr"]
    /\ UNCHANGED <<searchOut, goIdx, fileMatches, matchHeap, resultsSlice, multiErr,
                   common, mainPc, statsVars, outsideSearch>>

\* 885-886, 915-916, 953-954: multierror.Append and multiErrMu.Unlock()
AppendErr(g) ==
    /\ goPc[g] = "appendErr"
    /\ multiErr' = Append(multiErr, g)
    /\ mutex' = [mutex EXCEPT !["multiErrMu"] = "free"]
    /\ goPc' = [goPc EXCEPT ![g] = AfterErr(g)]
    /\ UNCHANGED <<searchOut, goIdx, fileMatches, matchHeap, resultsSlice, common, mainPc,
                   statsVars, outsideSearch>>

\* fileMatchesMu.Lock() that does not wait for the holder
LockFileMatchesUnguarded(g) ==
    /\ g \in MergeGoroutines
    /\ goPc[g] = "loop"
    /\ goIdx[g] <= Len(searchOut[g].matches)
    /\ mutex' = [mutex EXCEPT !["fileMatchesMu"] = g]
    /\ goPc' = [goPc EXCEPT ![g] = "lookup"]
    /\ UNCHANGED <<searchOut, goIdx, fileMatches, matchHeap, resultsSlice, multiErr,
                   common, mainPc, statsVars, outsideSearch>>

\* 918-920, 956-958: the next match of the range loop; fileMatchesMu.Lock()
LockFileMatches(g) ==
    /\ g \in MergeGoroutines
    /\ goPc[g] = "loop"
    /\ goIdx[g] <= Len(searchOut[g].matches)
    /\ mutex["fileMatchesMu"] = "free"
    /\ mutex' = [mutex EXCEPT !["fileMatchesMu"] = g]
    /\ goPc' = [goPc EXCEPT ![g] = "lookup"]
    /\ UNCHANGED <<searchOut, goIdx, fileMatches, matchHeap, resultsSlice, multiErr,
                   common, mainPc, statsVars, outsideSearch>>

\* 921, 959-960: m, ok := fileMatches[key]
Lookup(g) ==
    /\ goPc[g] = "lookup"
    /\ goPc' = [goPc EXCEPT ![g] = IF fileMatches[key(g)] # NoRef THEN "merge" ELSE "insert"]
    /\ UNCHANGED <<searchOut, goIdx, mutex, fileMatches, matchHeap, resultsSlice, multiErr,
                   common, mainPc, statsVars, outsideSearch>>

\* 922 (symbol): m.symbols = symbolFileMatch.symbols; 961-963 (file): JLimitHit is
\* or-ed and JLineMatches taken from the file result
Merge(g) ==
    /\ goPc[g] = "merge"
    /\ LET m == fileMatches[key(g)]
           r == matchHeap[<<g, key(g)>>]
       IN  matchHeap' =
             [matchHeap EXCEPT ![m] =
                 IF g = "symbol"
                 THEN [@ EXCEPT !.symbols = r.symbols]
                 ELSE [@ EXCEPT !.JLimitHit = @ \/ r.JLimitHit,
                                !.JLineMatches = r.JLineMatches]]
    /\ goPc' = [goPc EXCEPT ![g] = "unlockFM"]
    /\ UNCHANGED <<searchOut, goIdx, mutex, fileMatches, resultsSlice, multiErr, common,
                   mainPc, statsVars, outsideSearch>>

\* 924, 965: fileMatches[key] = the match of this goroutine
Insert(g) ==
    /\ goPc[g] = "insert"
    /\ fileMatches' = [fileMatches EXCEPT ![key(g)] = <<g, key(g)>>]
    /\ goPc' = [goPc EXCEPT ![g] = "lockResults"]
    /\ UNCHANGED <<searchOut, goIdx, mutex, matchHeap, resultsSlice, multiErr, common,
                   mainPc, statsVars, outsideSearch>>

\* 889, 925, 966: resultsMu.Lock()
LockResults(g) ==
    /\ goPc[g] = "lockResults"
    /\ mutex["resultsMu"] = "free"
    /\ mutex' = [mutex EXCEPT !["resultsMu"] = g]
    /\ goPc' = [goPc EXCEPT ![g] = "append"]
    /\ UNCHANGED <<searchOut, goIdx, fileMatches, matchHeap, resultsSlice, multiErr,
                   common, mainPc, statsVars, outsideSearch>>

\* 890-891, 926-927, 967-968: results = append(results, ...) and resultsMu.Unlock()
AppendResults(g) ==
    /\ goPc[g] = "append"
    /\ resultsSlice' =
         IF g \in MergeGoroutines
         THEN Append(resultsSlice, <<g, key(g)>>)
         ELSE resultsSlice \o [i \in 1 .. Len(searchOut[g].matches) |->
                                  <<g, searchOut[g].matches[i]>>]
    /\ mutex' = [mutex EXCEPT !["resultsMu"] = "free"]
    /\ goPc' = [goPc EXCEPT ![g] = IF g \in MergeGoroutines THEN "unlockFM" ELSE "common"]
    /\ UNCHANGED <<searchOut, goIdx, fileMatches, matchHeap, multiErr, common, mainPc,
                   statsVars, outsideSearch>>

\* 929, 970: fileMatchesMu.Unlock(), and on to the next match
UnlockFileMatches(g) ==
    /\ goPc[g] = "unlockFM"
    /\ mutex' = [mutex EXCEPT !["fileMatchesMu"] = "free"]
    /\ goIdx' = [goIdx EXCEPT ![g] = @ + 1]
    /\ goPc' = [goPc EXCEPT ![g] = "loop"]
    /\ UNCHANGED <<searchOut, fileMatches, matchHeap, resultsSlice, multiErr, common,
                   mainPc, statsVars, outsideSearch>>

\* 918, 956: the range loop is over
LoopEnds(g) ==
    /\ g \in MergeGoroutines
    /\ goPc[g] = "loop"
    /\ goIdx[g] > Len(searchOut[g].matches)
    /\ goPc' = [goPc EXCEPT ![g] = "common"]
    /\ UNCHANGED <<searchOut, goIdx, mutex, fileMatches, matchHeap, resultsSlice, multiErr,
                   common, mainPc, statsVars, outsideSearch>>

\* 893, 931, 972: the common of the search is nil, the goroutine is done (wg.Done)
NoCommon(g) ==
    /\ goPc[g] = "common"
    /\ ~searchOut[g].common
    /\ goPc' = [goPc EXCEPT ![g] = "done"]
    /\ UNCHANGED <<searchOut, goIdx, mutex, fileMatches, matchHeap, resultsSlice, multiErr,
                   common, mainPc, statsVars, outsideSearch>>

\* 894, 932, 973: commonMu.Lock()
LockCommon(g) ==
    /\ goPc[g] = "common"
    /\ searchOut[g].common
    /\ mutex["commonMu"] = "free"
    /\ mutex' = [mutex EXCEPT !["commonMu"] = g]
    /\ goPc' = [goPc EXCEPT ![g] = "updateCommon"]
    /\ UNCHANGED <<searchOut, goIdx, fileMatches, matchHeap, resultsSlice, multiErr,
                   common, mainPc, statsVars, outsideSearch>>

\* 895-896, 933-934, 974-975: common.update, commonMu.Unlock() and wg.Done
UpdateCommon(g) ==
    /\ goPc[g] = "updateCommon"
    /\ common' = common \cup {g}
    /\ mutex' = [mutex EXCEPT !["commonMu"] = "free"]
    /\ goPc' = [goPc EXCEPT ![g] = "done"]
    /\ UNCHANGED <<searchOut, goIdx, fileMatches, matchHeap, resultsSlice, multiErr,
                   mainPc, statsVars, outsideSearch>>

\* 1048-1058: requiredWg.Wait() and optionalWg.Wait() have returned
WaitReturns ==
    /\ mainPc = "waiting"
    /\ \A g \in Goroutines : goPc[g] = "done"
    /\ mainPc' = "returned"
    /\ UNCHANGED <<searchOut, goPc, goIdx, mutex, fileMatches, matchHeap, resultsSlice,
                   multiErr, common, statsVars, outsideSearch>>

DoResultsInit ==
    /\ InitProcesses
    /\ ImporterIdle
    /\ CachesIdle
    /\ searchOut \in SearchInputs
    /\ goPc = [g \in Goroutines |-> "search"]
    /\ goIdx = [g \in Goroutines |-> 1]
    /\ mutex = [m \in Mutexes |-> "free"]
    /\ fileMatches = [u \in URIs |-> NoRef]
    /\ matchHeap = [ref \in Refs |-> Resolver(ref[1], ref[2], searchOut[ref[1]].limitHit)]
    /\ resultsSlice = <<>>
    /\ multiErr = <<>>
    /\ common = {}
    /\ mainPc = "waiting"
    /\ stats = IdleStats
    /\ searchResultsStatsCache = [q \in StatsQueries |-> NoStats]
    /\ statsCalls = 0

GoNext(g) ==
    \/ SearchReturns(g)
    \/ LockMultiErr(g)
    \/ AppendErr(g)
    \/ LockFileMatches(g)
    \/ Lookup(g)
    \/ Merge(g)
    \/ Insert(g)
    \/ LockResults(g)
    \/ AppendResults(g)
    \/ UnlockFileMatches(g)
    \/ LoopEnds(g)
    \/ NoCommon(g)
    \/ LockCommon(g)
    \/ UpdateCommon(g)

DoResultsNext ==
    \/ \E g \in Goroutines : GoNext(g)
    \/ WaitReturns

DoResultsSpec == DoResultsInit /\ [][DoResultsNext]_vars

(***************************************************************************)
(* searchResolver.Stats (docs/jobs.md 574-650): the stats of a query are   *)
(* read from searchResultsStatsCache or computed by doResults, which is    *)
(* repeated while it finds nothing and repositories are cloning or timed   *)
(* out.  doResults and Sparkline are taken by what they return.            *)
(***************************************************************************)
outsideStats == <<doResultsVars, outsideSearch>>

\* what doResults returns: an error, or v with its result count and the numbers of
\* cloning and timed out repositories
SearchOutcomes ==
    {[err |-> TRUE, count |-> 0, cloning |-> 0, timedout |-> 0]} \cup
    {[err |-> FALSE, count |-> c, cloning |-> cl, timedout |-> t] :
        c \in 0 .. 2, cl \in 0 .. 1, t \in 0 .. 1}
\* what Stats returns
NoReturn == [err |-> "none", stats |-> NoStats]
ErrorReturn(why) == [err |-> why, stats |-> NoStats]
\* 634-637: the stats built from v and its sparkline
StatsOf(v) == [count |-> v.count, sparkline |-> "sparkline"]

\* 574-587: Stats is called for a query
StatsCall(q) ==
    /\ stats.pc \in {"idle", "returned"}
    /\ statsCalls < MaxStatsCalls
    /\ statsCalls' = statsCalls + 1
    /\ stats' = [IdleStats EXCEPT !.pc = "get", !.query = q]
    /\ UNCHANGED <<searchResultsStatsCache, outsideStats>>

\* 588-595: searchResultsStatsCache.Get(cacheKey); a hit is returned
StatsCacheGet ==
    /\ stats.pc = "get"
    /\ stats' = IF searchResultsStatsCache[stats.query] # NoStats
                THEN [stats EXCEPT !.pc = "returned",
                                   !.ret = [err |-> "none",
                                            stats |-> searchResultsStatsCache[stats.query]]]
                ELSE [stats EXCEPT !.pc = "search"]
    /\ UNCHANGED <<searchResultsStatsCache, statsCalls, outsideStats>>

\* 604: v, err = r.doResults(ctx, "")
StatsSearch ==
    /\ stats.pc = "search"
    /\ \E o \in SearchOutcomes :
          stats' = [stats EXCEPT !.v = o, !.searches = @ + 1, !.pc = "check"]
    /\ UNCHANGED <<searchResultsStatsCache, statsCalls, outsideStats>>

\* the retries are never given up before the eighth search
GiveUpLater(attempts) == attempts > 6

\* 618: if attempts > 5
GiveUp(attempts) == attempts > 5

\* 605-627: the outcome of the search is looked at
StatsCheck ==
    /\ stats.pc = "check"
    /\ stats' =
         IF stats.v.err
         THEN [stats EXCEPT !.pc = "returned", !.ret = ErrorReturn("search")]
         ELSE IF stats.v.count > 0
         THEN [stats EXCEPT !.pc = "sparkline"]
         ELSE IF stats.v.cloning = 0 /\ stats.v.timedout = 0
         THEN [stats EXCEPT !.pc = "sparkline"]
         ELSE IF GiveUp(stats.attempts)
         THEN [stats EXCEPT !.pc = "returned", !.ret = ErrorReturn("cloning")]
         ELSE [stats EXCEPT !.attempts = @ + 1, !.pc = "sleep"]
    /\ UNCHANGED <<searchResultsStatsCache, statsCalls, outsideStats>>

\* 627: time.Sleep(5 * time.Second)
StatsSleep ==
    /\ stats.pc = "sleep"
    /\ stats' = [stats EXCEPT !.pc = "search"]
    /\ UNCHANGED <<searchResultsStatsCache, statsCalls, outsideStats>>

\* 630-633: v.Sparkline(ctx) returns the sparkline or an error
StatsSparkline ==
    /\ stats.pc = "sparkline"
    /\ \E ok \in BOOLEAN :
          stats' = IF ok THEN [stats EXCEPT !.pc = "store"]
                   ELSE [stats EXCEPT !.pc = "returned", !.ret = ErrorReturn("sparkline")]
    /\ UNCHANGED <<searchResultsStatsCache, statsCalls, outsideStats>>

\* 634-649: the stats are stored if v has results, and returned
StatsStore ==
    /\ stats.pc = "store"
    /\ searchResultsStatsCache' =
         IF stats.v.count > 0
         THEN [searchResultsStatsCache EXCEPT ![stats.query] = StatsOf(stats.v)]
         ELSE searchResultsStatsCache
    /\ stats' = [stats EXCEPT !.pc = "returned",
                              !.ret = [err |-> "none", stats |-> StatsOf(stats.v)]]
    /\ UNCHANGED <<statsCalls, outsideStats>>

\* 561: the cache is built with a TTL of one hour, an entry expires
StatsCacheExpire(q) ==
    /\ searchResultsStatsCache[q] # NoStats
    /\ searchResultsStatsCache' = [searchResultsStatsCache EXCEPT ![q] = NoStats]
    /\ UNCHANGED <<stats, statsCalls, outsideStats>>

StatsInit == InitProcesses /\ ImporterIdle /\ CachesIdle /\ SearchIdle

\* the steps of a call of Stats
StatsRun ==
    \/ StatsCacheGet
    \/ StatsSearch
    \/ StatsCheck
    \/ StatsSleep
    \/ StatsSparkline
    \/ StatsStore

StatsNext ==
    \/ \E q \in StatsQueries : StatsCall(q)
    \/ StatsRun
    \/ \E q \in StatsQueries : StatsCacheExpire(q)

\* a call that can take a step takes it: doResults, Sparkline and the sleep return
StatsSpec == StatsInit /\ [][StatsNext]_vars /\ WF_vars(StatsRun)

(***************************************************************************)
(* Properties.                                                             *)
(***************************************************************************)
\* the conversion the current attempt of job j produces
Converted(j) == [job |-> j, attempt |-> attemptsMade[j] + 1]

\* the (repository, commit, root) of job j
KeyOf(j) == <<jobArgs[j].repository, jobArgs[j].commit, jobArgs[j].root>>

RowsOfKey(k) == DumpsOf(k[1], k[2], k[3])

\* the ids of the dump files that hold a conversion for key k
FilesOfKey(k) ==
    {d \in DumpIds : dumpFiles[d] # NoDump /\ KeyOf(dumpFiles[d].job) = k}

Enqueued == {j \in JobIds : jobState[j] # "none"}

\* C1: the steps of a convert job happen in order, each after the one before
\* succeeded: the cross-repo registration only with the importer's database at the temp
\* path, the rename of that temp file only to the file of the dump id the registration
\* returned, the unlink of the upload file only once the dump file is in place.
C1_Step ==
    /\ \A j \in JobIds :
          (dump'[j] # dump[j] /\ dump'[j] # 0) =>
              /\ tempFile(j) \in tmpFiles
              /\ \E d \in lsif_dumps' : d.id = dump'[j] /\ <<d.repository, d.commit, d.root>> = KeyOf(j)
              /\ dumpFiles[dump'[j]] = NoDump
    /\ \A d \in DumpIds :
          dumpFiles'[d] # dumpFiles[d] =>
              \E j \in JobIds :
                  /\ dump[j] = d
                  /\ tempFile(j) \in tmpFiles
                  /\ tempFile(j) \notin tmpFiles'
                  /\ dumpFiles'[d] = Converted(j)
    /\ \A f \in Requests :
          (uploadFile[f] # NoFile /\ uploadFile'[f] = NoFile) =>
              \E j \in JobIds :
                  /\ jobArgs[j].filename = f
                  /\ dump[j] # 0
                  /\ dumpFiles[dump[j]] = Converted(j)
                  /\ tempFile(j) \notin tmpFiles

C1_ConvertStepsInOrder == [][C1_Step]_vars

\* a convert job ran all its steps: its dump file is in place and its upload is gone
C1_Witness ==
    \E j \in JobIds :
        /\ jobState[j] = "completed"
        /\ uploadFile[jobArgs[j].filename] = NoFile
        /\ \E d \in DumpIds : dumpFiles[d] = Converted(j)

\* C2 (as claimed): in every state a dump row exists iff the dump file of its id exists.
C2_RowIffFile ==
    \A d \in DumpIds : (\E row \in lsif_dumps : row.id = d) <=> dumpFiles[d] # NoDump

\* C3: the upload file of a convert job is gone only when the job completed, that is
\* after an attempt whose import, registration, rename and commit update all succeeded;
\* after a failed attempt it is still there.
C3_UploadKeptUnlessSuccess ==
    \A j \in Enqueued :
        /\ uploadFile[jobArgs[j].filename] = NoFile =>
              /\ jobState[j] = "completed"
              /\ \E d \in DumpIds : dumpFiles[d] = Converted(j)
              /\ <<jobArgs[j].repository, jobArgs[j].commit>> \in lsif_commits
        /\ jobState[j] \in {"delayed", "failed"} => uploadFile[jobArgs[j].filename] # NoFile

\* an attempt failed and the upload file is still on disk
C3_Witness ==
    \E j \in Enqueued :
        /\ jobState[j] \in {"delayed", "failed"}
        /\ failedReason[j] \in {"convertLsif", "addPackagesAndReferences", "rename",
                                 "discoverAndUpdateCommit"}
        /\ uploadFile[jobArgs[j].filename] # NoFile

\* C4: when an attempt of a convert job ends, the temp file of that attempt is not
\* under tmp/, and an attempt that failed in the import, the registration or the rename
\* is counted by the queue as a failed attempt of the job.
C4_Step ==
    \A j \in JobIds :
        (jobState[j] = "active" /\ jobState'[j] # "active") =>
            /\ tempFile(j) \notin tmpFiles'
            /\ pc[j] = "catch" =>
                  /\ jobState'[j] \in {"delayed", "failed"}
                  /\ attemptsMade'[j] = attemptsMade[j] + 1
                  /\ failedReason'[j] # "none"

C4_TempFileRemoved == [][C4_Step]_vars

\* an attempt that had written its temp file failed, and tmp/ holds no file of the job
C4_Witness ==
    \E j \in Enqueued :
        /\ jobState[j] \in {"delayed", "failed"}
        /\ failedReason[j] \in {"addPackagesAndReferences", "rename"}
        /\ \A t \in tmpFiles : t[1] # j

\* C5 (as claimed): once convert ran twice for one (repository, commit, root), as a
\* second upload or as a retry, there is one dump row and one dump file for the key, the
\* file of that row, and findDefiningDump returns that row's id.
RanTwice(k) ==
    /\ \A j \in Enqueued : KeyOf(j) = k => jobState[j] \in {"completed", "failed"}
    /\ \/ \E j1, j2 \in Enqueued :
             /\ j1 # j2
             /\ KeyOf(j1) = k /\ KeyOf(j2) = k
             /\ jobState[j1] = "completed" /\ jobState[j2] = "completed"
       \/ \E j \in Enqueued :
             /\ KeyOf(j) = k
             /\ jobState[j] = "completed"
             /\ \E d \in DumpIds : dumpFiles[d] # NoDump /\ dumpFiles[d].job = j
                                     /\ dumpFiles[d].attempt <= attemptsMade[j]

C5_SecondReplacesFirst ==
    \A j \in Enqueued :
        RanTwice(KeyOf(j)) =>
            /\ Cardinality(RowsOfKey(KeyOf(j))) = 1
            /\ FilesOfKey(KeyOf(j)) = {d.id : d \in RowsOfKey(KeyOf(j))}
            /\ \A p \in PackagesOf(j) :
                  findDefiningDump(p) = {d.id : d \in RowsOfKey(KeyOf(j))}

\* the dump of key k is in place: one row, and the dump file of that row
InPlace(k) ==
    /\ Cardinality(RowsOfKey(k)) = 1
    /\ \A d \in RowsOfKey(k) : dumpFiles[d.id] # NoDump

\* the number of failed attempts of the convert jobs for key k
RECURSIVE SumAttempts(_)
SumAttempts(js) ==
    IF js = {} THEN 0
    ELSE LET j == CHOOSE x \in js : TRUE IN attemptsMade[j] + SumAttempts(js \ {j})

FailuresOf(k) == SumAttempts({j \in Enqueued : KeyOf(j) = k})

\* C6: a convert job whose attempt failed in addPackagesAndReferences is run again,
\* and unless a later attempt for its (repository, commit, root) fails, the job completes
\* and the dump of that key is in place: one row, with its dump file.
C6_RetryConverges ==
    \A j \in JobIds : \A n \in 1 .. (MaxUploads * MaxAttempts - 1) :
        (/\ jobState[j] = "delayed"
         /\ failedReason[j] = "addPackagesAndReferences"
         /\ FailuresOf(KeyOf(j)) = n)
        ~> (\/ jobState[j] = "completed" /\ InPlace(KeyOf(j))
            \/ FailuresOf(KeyOf(j)) > n)

\* the retried job completed after its failure in addPackagesAndReferences
C6_Witness ==
    \E j \in Enqueued :
        /\ jobState[j] = "completed"
        /\ failedReason[j] = "addPackagesAndReferences"
        /\ attemptsMade[j] = 1
        /\ InPlace(KeyOf(j))

\* C7: a convert job is attempted at most MaxAttempts times; a job that failed that
\* often is in the failed state, stays there, and its upload file stays on disk; an
\* enqueued job never leaves the queue's record.
C7_Inv ==
    \A j \in Enqueued :
        /\ attemptsMade[j] <= MaxAttempts
        /\ jobState[j] \in {"waiting", "active", "delayed"} => attemptsMade[j] < MaxAttempts
        /\ jobState[j] = "failed" =>
              /\ attemptsMade[j] = MaxAttempts
              /\ uploadFile[jobArgs[j].filename] # NoFile

C7_Step ==
    \A j \in JobIds :
        /\ jobState[j] # "none" => jobState'[j] # "none" /\ jobArgs'[j] = jobArgs[j]
        /\ jobState[j] = "failed" =>
              /\ jobState'[j] = "failed"
              /\ attemptsMade'[j] = attemptsMade[j]
              /\ uploadFile'[jobArgs[j].filename] = uploadFile[jobArgs[j].filename]

C7_FailedJobStays == []C7_Inv /\ [][C7_Step]_vars

\* a job with a well-formed upload failed MaxAttempts times, in other steps than the import
C7_Witness ==
    \E j \in Enqueued :
        /\ jobState[j] = "failed"
        /\ attemptsMade[j] = MaxAttempts
        /\ failedReason[j] \in {"addPackagesAndReferences", "rename", "discoverAndUpdateCommit"}
        /\ Importable(uploadFile[jobArgs[j].filename])

C9_Step ==
    \A r \in Requests :
        /\ JobsOf(r)' # JobsOf(r) =>
              /\ reqPc[r] = "enqueue"
              /\ uploadFile[r] = Piped(r)
              /\ uploadFile'[r] = uploadFile[r]
              /\ ~skipValidation(r) => req[r].body = "valid"
              /\ resp'[r] = 200
        /\ (resp[r] = 0 /\ resp'[r] = 200) =>
              /\ JobsOf(r) = {}
              /\ Cardinality(JobsOf(r)') = 1
              /\ \A j \in JobsOf(r)' :
                    /\ jobState'[j] = "waiting"
                    /\ jobArgs'[j] = [repository |-> req[r].repository,
                                      commit |-> req[r].commit,
                                      root |-> IF req[r].root = Undefined THEN "" ELSE req[r].root,
                                      filename |-> r]
        /\ (resp[r] = 0 /\ resp'[r] \notin {0, 200}) => JobsOf(r)' = {}
        /\ resp[r] # 0 => resp'[r] = resp[r] /\ JobsOf(r)' = JobsOf(r)

C10_Step ==
    \A r \in Requests :
        (/\ resp[r] = 0
         /\ resp'[r] = 422
         /\ ~skipValidation(r)
         /\ req[r].body = "malformed") =>
            /\ uploadFile'[r] = NoFile
            /\ JobsOf(r)' = {}

C10_NoArtifactAfter422 == [][C10_Step]_vars

\* C11: a POST /upload whose repository is not a string or whose commit is not valid is
\* answered 400 and changes neither the storage root, the database nor the queue; a
\* request that gets past the checks carries a string repository and a valid commit.
C11_Step ==
    \A r \in Requests :
        (reqPc[r] = "new" /\ reqPc'[r] # "new") =>
            \/ /\ reqPc'[r] = "pipeline"
               /\ resp'[r] = 0
               /\ req'[r].repository # Undefined
               /\ req'[r].commit.type = "string"
               /\ req'[r].commit.len = 40
            \/ /\ reqPc'[r] = "done"
               /\ resp'[r] = 400
               /\ UNCHANGED <<uploadFile, tmpFiles, dumpFiles, xrepoVars, queueVars>>

C11_BadQueryIs400 == [][C11_Step]_vars

\* a request was answered 400: it has no upload file and no job
C11_Witness ==
    \E r \in Requests : resp[r] = 400 /\ uploadFile[r] = NoFile /\ JobsOf(r) = {}

\* C12: an attempt whose import fails writes no dump, package or reference row and
\* creates or replaces no dump file, so an earlier dump of the same key stays as it was,
\* and the attempt ends with the job failed (delayed for a retry or failed for good).
C12_Step ==
    \A j \in JobIds :
        /\ (pc[j] = "convertLsif" /\ pc'[j] # "convertLsif" /\ pc'[j] # "addPackagesAndReferences") =>
              /\ pc'[j] = "catch"
              /\ thrown'[j] = "convertLsif"
              /\ dump'[j] = 0
              /\ UNCHANGED <<lsif_dumps, lsif_packages, lsif_references, dumpFiles>>
        /\ (pc[j] = "catch" /\ thrown[j] = "convertLsif" /\ pc'[j] # "catch") =>
              /\ pc'[j] = "idle"
              /\ UNCHANGED <<lsif_dumps, lsif_packages, lsif_references, dumpFiles>>
              /\ jobState'[j] \in {"delayed", "failed"}
              /\ attemptsMade'[j] = attemptsMade[j] + 1

C12_ImporterFailFast == [][C12_Step]_vars

\* an attempt failed in the importer while an earlier dump of the same key has its row,
\* its package row and its file
C12_Witness ==
    \E j \in JobIds :
        /\ jobState[j] \in {"delayed", "failed"}
        /\ failedReason[j] = "convertLsif"
        /\ \E d \in DumpsOf(jobArgs[j].repository, jobArgs[j].commit, jobArgs[j].root) :
              /\ dumpFiles[d.id] # NoDump
              /\ dumpFiles[d.id].job # j
              /\ \E p \in lsif_packages : p.dump_id = d.id

\* C13: addPackagesAndReferences is all-or-nothing.  When it succeeds there is exactly
\* one dump row of the key, the one it returns, and the package and reference rows of
\* every dump the key has had are exactly the rows supplied, under the new id; when it
\* fails the dump, package and reference rows are what they were.
C13_Step ==
    \A j \in JobIds :
        (pc[j] = "addPackagesAndReferences" /\ pc'[j] # "addPackagesAndReferences") =>
            LET old == {d.id : d \in DumpsOf(jobArgs[j].repository, jobArgs[j].commit,
                                              jobArgs[j].root)}
                ids == old \cup {dump'[j]}
            IN  \/ /\ pc'[j] = "rename"
                   /\ dump'[j] \notin old
                   /\ {d \in lsif_dumps' : d.repository = jobArgs[j].repository
                                            /\ d.commit = jobArgs[j].commit
                                            /\ d.root = jobArgs[j].root}
                        = {[id |-> dump'[j], repository |-> jobArgs[j].repository,
                            commit |-> jobArgs[j].commit, root |-> jobArgs[j].root]}
                   /\ {p \in lsif_packages' : p.dump_id \in ids}
                        = {[dump_id |-> dump'[j], package |-> q] : q \in PackagesOf(j)}
                   /\ {p \in lsif_references' : p.dump_id \in ids}
                        = {[dump_id |-> dump'[j], package |-> q] : q \in ReferencesOf(j)}
                \/ /\ pc'[j] = "catch"
                   /\ UNCHANGED <<lsif_dumps, lsif_packages, lsif_references>>

C13_RegisterAllOrNothing == [][C13_Step]_vars

\* the second attempt of the only job registered dump 2 in place of dump 1, whose file
\* the first attempt had put in place
C13_Witness ==
    \E j \in JobIds :
        /\ pc[j] = "rename"
        /\ attemptsMade[j] = 1
        /\ dump[j] = 2
        /\ nextJobId = 2
        /\ dumpFiles[1] # NoDump
        /\ \A p \in lsif_packages : p.dump_id = 2

\* where the data of dump d is: in the file of the old name while that exists, else in
\* the file of the id-based name
WhereData(d) ==
    IF oldFiles[dbFilenameOld(d.repository, d.commit)] # NoDump
    THEN oldFiles[dbFilenameOld(d.repository, d.commit)]
    ELSE dumpFiles[dbFilename(d.id, d.repository, d.commit)]

\* C14: the marker exists only when no dump row has a file of the old name left, and no
\* step loses or changes the data of a dump on its way from the old name to the id-based
\* name; so a run that stops before its end leaves no marker, and the run that writes
\* the marker has every old file's data at its id-based name.
C14_Inv ==
    doneFile => \A d \in lsif_dumps : oldFiles[dbFilenameOld(d.repository, d.commit)] = NoDump

C14_Step ==
    /\ \A d \in lsif_dumps : WhereData(d)' = WhereData(d)
    /\ (migPc = "loop" /\ migTodo # {}) => ~doneFile'

C15_Step ==
    doneFile =>
        /\ migPc' = "idle"
        /\ UNCHANGED <<doneFile, oldFiles, dumpFiles, uploadFile, tmpFiles>>

C15_MarkerMakesNoop == [][C15_Step]_vars

\* the server was started a second time with the marker in place and listens
C15_Witness ==
    /\ doneFile
    /\ starts = 2
    /\ serverPc = "listening"
    /\ faults = 0

\* a POST /request whose body was parsed
ParsedRequest == qReq.endpoint = "request" /\ qReq.body = "json"

\* the one call the handler of the request makes on the backend
CallOfRequest ==
    [op |-> qReq.method, repository |-> qReq.repository, commit |-> qReq.commit,
     path |-> qReq.path, position |-> qReq.position]

\* C16 (as claimed): a POST /request whose method is not definitions, references or
\* hover is answered 422 and makes no call on the backend, whatever its query values.
C16_UnsupportedMethodIs422 ==
    (ParsedRequest /\ qReq.method \notin {"definitions", "references", "hover"}) =>
        /\ backendCalls = <<>>
        /\ qPc = "done" => qResp.status = 422

\* C16 (amended): a POST /request that passes the checks of the repository and the
\* commit and whose method is not definitions, references or hover is answered 422 and
\* makes no call on the backend; with a supported method the backend operation of that
\* name is called once, with the repository, commit, path and position of the request.
C16_MethodDispatch ==
    (ParsedRequest /\ qReq.repository # Undefined /\ checkCommit(qReq.commit)) =>
        IF qReq.method \in {"definitions", "references", "hover"}
        THEN backendCalls = <<CallOfRequest>>
        ELSE /\ backendCalls = <<>>
             /\ qErr.status = 422
             /\ qPc = "done" => qResp.status = 422

\* a request with an unsupported method was answered 422, and one with the method
\* references was answered from the backend
C16_Witness ==
    /\ ParsedRequest
    /\ qPc = "done"
    /\ qReq.method = "implementations"
    /\ qResp.status = 422
    /\ backendCalls = <<>>

\* the commit check of a query request was reached: the body was parsed and the
\* repository is a string
CommitChecked ==
    /\ qReq.endpoint \in {"exists", "request"}
    /\ qReq.endpoint = "request" => qReq.body = "json"
    /\ qReq.repository # Undefined

CommitRejected == qErr = [thrown |-> TRUE, status |-> 400, message |-> "Must specify the commit"]

\* C17 (as claimed): a commit is accepted iff it is a string of exactly 40 hexadecimal
\* characters (digits and the letters a to f in either case), and rejected with 400
\* otherwise.
C17_AcceptsFortyHex ==
    CommitChecked =>
        (~CommitRejected <=>
            /\ qReq.commit.type = "string"
            /\ qReq.commit.len = 40
            /\ qReq.commit.chars # {}
            /\ qReq.commit.chars \subseteq {"0-9", "a-f", "A-F"})

\* C17 (amended): a commit is accepted iff it is a string of exactly 40 characters, each
\* a digit or a lowercase letter a to f, and rejected with 400 otherwise.
C17_AcceptsFortyLowerHex ==
    CommitChecked =>
        (~CommitRejected <=>
            /\ qReq.commit.type = "string"
            /\ qReq.commit.len = 40
            /\ qReq.commit.chars # {}
            /\ qReq.commit.chars \subseteq {"0-9", "a-f"})

\* a commit of 40 digits was accepted by a request that went on to the backend
C17_Witness ==
    /\ CommitChecked
    /\ qReq.commit = OtherCommit
    /\ qPc = "done"
    /\ qResp.status = 200

\* C18: a POST /exists that passes its checks and whose backend call returns is answered
\* 200 with a JSON boolean: true iff a dump is selected for the repository, commit and
\* file and a document exists at the file in it, false otherwise, also when no dump
\* matches.
C18_ExistsIsBoolean ==
    (qReq.endpoint = "exists" /\ qPc = "done" /\ qErr = NoError) =>
        /\ qResp.status = 200
        /\ qResp.json \in {"true", "false"}
        /\ qResp.json = "true" <=>
              /\ \E d \in lsif_dumps : d.repository = qReq.repository
              /\ qReq.file = "src/index.ts"

\* a file absent from the selected dump was answered false
C18_Witness ==
    /\ qReq.endpoint = "exists"
    /\ qPc = "done"
    /\ qReq.repository = "github.com/u/r"
    /\ qReq.file = "src/missing.ts"
    /\ qResp.status = 200
    /\ qResp.json = "false"

\* C19: the error handler answers an error that carries a status with that status and
\* the error's message, an error without a status with 500, never with a 2xx status,
\* and writes nothing when the headers of the response were already sent.
C19_Step ==
    (qPc = "error" /\ qPc' # "error") =>
        IF headersSent
        THEN UNCHANGED <<qResp, headersSent>>
        ELSE /\ qResp'.status = (IF qErr.status # 0 THEN qErr.status ELSE 500)
             /\ qResp'.message = (IF qErr.message # "" THEN qErr.message ELSE "Unknown error")
             /\ qResp'.status \notin 200 .. 299
             /\ qResp'.json = "none"

C19_ErrorHandler == [][C19_Step]_vars

\* an error reached the handler after the response was started with 200, and the
\* response is as it was
C19_Witness ==
    /\ qPc = "done"
    /\ qErr.thrown
    /\ qResp.status = 200
    /\ headersSent

\* two reference results are joined by item edges, taken in either direction
EdgeBetween(a, b) == <<a, b>> \in itemEdges \/ <<b, a>> \in itemEdges

Connected(a, b) ==
    \/ a = b
    \/ EdgeBetween(a, b)
    \/ \E c \in ReferenceResults : EdgeBetween(a, c) /\ EdgeBetween(c, b)


\* a references request for src/index.ts was answered from the dump
ReferencesAnswered ==
    /\ ParsedRequest
    /\ qReq.method = "references"
    /\ qReq.path = "src/index.ts"
    /\ qPc = "done"
    /\ qResp.status = 200
    /\ qResp.json = "locations"

\* C20: references from a position inside a range returns the definitions and uses of
\* every reference result linked to the range's own, each once and nothing else; so the
\* ranges of linked results all give the same locations, and with the results of the
\* three declarations of foo linked each of the five positions gives the five locations.
C20_LinkedReferences ==
    ReferencesAnswered =>
        \A r \in Ranges :
            (/\ r.start.line = qReq.position.line
             /\ r.start.character <= qReq.position.character
             /\ qReq.position.character < r.end.character) =>
                /\ Elements(qResp.locations)
                     = {x \in Ranges : Connected(ReferenceResultOf(x), ReferenceResultOf(r))}
                /\ Len(qResp.locations) = Cardinality(Elements(qResp.locations))
                /\ (\A a, b \in ReferenceResults : Connected(a, b)) =>
                      /\ Len(qResp.locations) = 5
                      /\ Elements(qResp.locations) = {DefI, DefA, DefB, UseI, UseB}

\* the results of A.foo and B.foo are each linked to the result of I.foo only, and the
\* request at the declaration in A was answered with the five locations
C20_Witness ==
    /\ ReferencesAnswered
    /\ itemEdges = {<<"refA", "refI">>, <<"refB", "refI">>}
    /\ qReq.position = [line |-> 5, character |-> 5]
    /\ Len(qResp.locations) = 5
    /\ UseB \in Elements(qResp.locations)

\* C28: with skipValidation=true, and only for the exact value 'true', POST /upload
\* validates nothing: the upload file holds the request's bytes as they came, a malformed
\* body is not rejected (only a failure of the transfer answers 422) and is enqueued
\* with 200; for any other value the stream is validated to its end (and written
\* re-encoded) before the job is enqueued.
C28_Step ==
    \A r \in Requests :
        /\ (reqPc[r] = "pipeline" /\ reqPc'[r] = "enqueue") =>
              IF req[r].skipValidation = "true"
              THEN uploadFile'[r] = [encoding |-> "raw", body |-> req[r].body]
              ELSE /\ req[r].body = "valid"
                   /\ uploadFile'[r] = [encoding |-> "regz", body |-> "valid"]
        /\ (resp[r] = 0 /\ resp'[r] = 422 /\ req[r].skipValidation = "true") =>
              faults' # faults
        /\ JobsOf(r)' # JobsOf(r) =>
              /\ resp'[r] = 200
              /\ IF req[r].skipValidation = "true"
                 THEN uploadFile[r] = [encoding |-> "raw", body |-> req[r].body]
                 ELSE /\ req[r].body = "valid"
                      /\ uploadFile[r] = [encoding |-> "regz", body |-> "valid"]

C28_SkipValidationOnlyTrue == [][C28_Step]_vars

\* a malformed body sent with skipValidation=true was answered 200 and its job waits,
\* the upload file holding the malformed bytes as sent
C28_Witness ==
    \E r \in Requests :
        /\ resp[r] = 200
        /\ uploadFile[r] = [encoding |-> "raw", body |-> "malformed"]
        /\ \E j \in JobsOf(r) : jobState[j] = "waiting"

\* C29 (as claimed): POST /upload answers 422 only when the validation of the payload
\* failed: validation is on, the body is malformed, and no read or write failure
\* occurred in the step that answers.
C29_Step ==
    \A r \in Requests :
        (resp[r] = 0 /\ resp'[r] = 422) =>
            /\ ~skipValidation(r)
            /\ req[r].body = "malformed"
            /\ faults' = faults

C29_Only422OnInvalidPayload == [][C29_Step]_vars

\* C30: the commit-parentage update of a convert job runs only once the dump file is at
\* its final path <id>.lsif.db; when the update fails the job fails with that reason and
\* the step removes neither the dump row nor the dump file nor the upload file, so the
\* job that waits for its retry still has the upload file it converts again.
C30_Inv ==
    \A j \in JobIds :
        /\ pc[j] = "discoverAndUpdateCommit" =>
              /\ dump[j] \in DumpIds
              /\ dumpFiles[dbFilename(dump[j], jobArgs[j].repository, jobArgs[j].commit)]
                    = [job |-> j, attempt |-> attemptsMade[j] + 1]
              /\ tempFile(j) \notin tmpFiles
        /\ (jobState[j] \in {"delayed", "waiting"}
            /\ failedReason[j] = "discoverAndUpdateCommit") =>
              uploadFile[jobArgs[j].filename] # NoFile

C30_Step ==
    \A j \in JobIds :
        /\ (lsif_commits' # lsif_commits /\ pc'[j] # pc[j]) =>
              pc[j] = "discoverAndUpdateCommit"
        /\ (pc[j] = "discoverAndUpdateCommit" /\ pc'[j] = "idle") =>
              /\ jobState'[j] \in {"delayed", "failed"}
              /\ failedReason'[j] = "discoverAndUpdateCommit"
              /\ attemptsMade'[j] = attemptsMade[j] + 1
              /\ lsif_dumps' = lsif_dumps
              /\ dumpFiles' = dumpFiles
              /\ uploadFile' = uploadFile
              /\ uploadFile[jobArgs[j].filename] # NoFile
        /\ (jobState[j] = "waiting" /\ jobState'[j] = "active"
            /\ failedReason[j] = "discoverAndUpdateCommit") =>
              /\ pc'[j] = "convertLsif"
              /\ uploadFile'[jobArgs[j].filename] = uploadFile[jobArgs[j].filename]
              /\ uploadFile[jobArgs[j].filename] # NoFile

C30_CommitUpdateAfterRename == []C30_Inv /\ [][C30_Step]_vars

\* the commit update of the first attempt failed, and the retry has converted the same
\* upload again while the first attempt's dump file is still in place
C30_Witness ==
    \E j \in JobIds :
        /\ attemptsMade[j] = 1
        /\ failedReason[j] = "discoverAndUpdateCommit"
        /\ pc[j] = "addPackagesAndReferences"
        /\ tempFile(j) \in tmpFiles
        /\ uploadFile[jobArgs[j].filename] # NoFile
        /\ \E d \in DumpIds : dumpFiles[d] = [job |-> j, attempt |-> 1]

\* a query passed its checks and the backend's answer was written
BackendAnswered ==
    /\ qPc = "done"
    /\ qErr = NoError
    /\ Len(backendCalls) = 1

\* the number of parent edges between two of the three commits
HopsBetween(a, b) ==
    IF a = b THEN 0
    ELSE IF {a, b} = {OtherCommit, ChildCommit} THEN 2 ELSE 1

\* commit a is commit b or an ancestor of it
AtOrAbove(a, b) ==
    \/ a = b
    \/ a = OtherCommit
    \/ a = GoodCommit /\ b = ChildCommit

\* the dumps that can serve a call: of its repository, their root a prefix of its path
DumpsCovering(call) ==
    {d \in lsif_dumps : /\ d.repository = call.repository
                        /\ d.root = "" \/ (d.root = "lib" /\ call.path = "lib/index.ts")}

RangesAt(position) ==
    {r \in AppRanges :
        /\ r.start.line < position.line
              \/ (r.start.line = position.line /\ r.start.character <= position.character)
        /\ position.line < r.end.line
              \/ (position.line = r.end.line /\ position.character < r.end.character)}

\* the area of a range of src/app.ts, in characters of lines 100 characters long
AreaOf(r) == (r.end.line - r.start.line) * 100 + r.end.character - r.start.character

\* the ranges of least area among the given ones, and of those the earliest
LeastArea(S) == {r \in S : \A o \in S : AreaOf(r) <= AreaOf(o)}
EarliestOf(S) ==
    {r \in S : \A o \in S :
        \/ r.start.line < o.start.line
        \/ r.start.line = o.start.line /\ r.start.character <= o.start.character}

\* a definitions or references request for src/app.ts was answered from the dump
AppAnswered ==
    /\ BackendAnswered
    /\ backendCalls[1].op \in {"definitions", "references"}
    /\ backendCalls[1].path = "src/app.ts"
    /\ qResp.json = "locations"

\* C26: of the ranges of the document that contain the position (the end character being
\* outside a range) definitions and references answer for the one of least area, and
\* among those of the same area for the one that starts first, in whatever order the
\* document stores its ranges: references gives that range's own use, definitions its
\* declaration if it declares a symbol, and a position in no range gives nothing.
C26_InnermostRange ==
    AppAnswered =>
        LET at == RangesAt(backendCalls[1].position)
            best == EarliestOf(LeastArea(at))
        IN  /\ Cardinality(best) <= 1
            /\ Len(qResp.locations) = Cardinality(best \cap
                    (IF backendCalls[1].op = "references" THEN AppRanges ELSE Declarations))
            /\ \A i \in 1 .. Len(qResp.locations) : qResp.locations[i] \in best

\* the document stores the later of the two ranges of equal area first, and references at
\* a position in both (and in the block around them) answered with the earlier one
C26_Witness ==
    /\ AppAnswered
    /\ \E i, j \in 1 .. Len(rangeOrder) : i < j /\ rangeOrder[i] = TieB /\ rangeOrder[j] = TieA
    /\ backendCalls[1].op = "references"
    /\ backendCalls[1].position = [line |-> 2, character |-> 10]
    /\ RangesAt(backendCalls[1].position) = {Outer, TieA, TieB}
    /\ qResp.locations = <<TieA>>

\* the dumps of the two repositories that import the library's package
Importers == {d \in lsif_dumps : d.repository \in {"github.com/u/s", "github.com/u/t"}}

\* the uses of I.foo in the dumps that import it, named with their repositories
ImportedUses ==
    {[Inner EXCEPT !.path = "git://github.com/u/s#src/app.ts"] :
        d \in {e \in Importers : e.repository = "github.com/u/s"}}
    \cup {[UseC EXCEPT !.path = "git://github.com/u/t#src/main.ts"] :
        d \in {e \in Importers : e.repository = "github.com/u/t"}}

\* a references request at a declaration or use of I.foo in the library was answered
\* from a dump of the library
LibraryReferencesAnswered ==
    /\ BackendAnswered
    /\ backendCalls[1].op = "references"
    /\ backendCalls[1].repository = "github.com/u/r"
    /\ backendCalls[1].path = "src/index.ts"
    /\ backendCalls[1].position \in {[line |-> 1, character |-> 5],
                                      [line |-> 13, character |-> 3]}
    /\ qResp.json = "locations"

\* C24: for the symbol I.foo that the library's dump A defines and exports and that the
\* dumps B and C of two other repositories import, references from a position of the
\* symbol in A returns the local references in A and the uses of that moniker in each
\* importing dump that exists, each once, and nothing else (no use of another moniker,
\* nothing from a dump that does not import the package).
C24_CrossDumpReferences ==
    LibraryReferencesAnswered =>
        /\ Elements(qResp.locations)
              = {x \in Ranges : Connected(ReferenceResultOf(x), "refI")} \cup ImportedUses
        /\ Len(qResp.locations) = Cardinality(Elements(qResp.locations))

\* B and C both exist, and the request at the declaration of I.foo in A was answered
\* with the five local locations, the use in B and the use in C
C24_Witness ==
    /\ LibraryReferencesAnswered
    /\ {d.repository : d \in Importers} = {"github.com/u/s", "github.com/u/t"}
    /\ backendCalls[1].position = [line |-> 1, character |-> 5]
    /\ Len(qResp.locations) = 7
    /\ [UseC EXCEPT !.path = "git://github.com/u/t#src/main.ts"] \in Elements(qResp.locations)
    /\ [Inner EXCEPT !.path = "git://github.com/u/s#src/app.ts"] \in Elements(qResp.locations)

\* the ranges of the documents of the written dump, and the result ids of a range
StoredRangeIds == UNION {dumpStore.documents[p] : p \in DOMAIN dumpStore.documents}
ListedResultIds(i) ==
    {dumpStore.ranges[i].definitionResultId, dumpStore.ranges[i].referenceResultId} \ {0}
HoverIds(i) == {dumpStore.ranges[i].hoverResultId} \ {0}

\* the id resolves through its shard, to a list whose members are ranges of documents
\* of the dump
ResolvesInShard(id) ==
    LET chunk == dumpStore.resultChunks[id % dumpStore.numResultChunks]
    IN  /\ id \in DOMAIN chunk
        /\ \A mem \in chunk[id] :
              /\ mem[1] \in DOMAIN dumpStore.documents
              /\ mem[2] \in dumpStore.documents[mem[1]]

NonEmptyInShard(id) ==
    dumpStore.resultChunks[id % dumpStore.numResultChunks][id] # {}

PinsOn(k) ==
    Cardinality({<<q, i>> \in CacheQueries \X (1 .. Len(CacheOrder)) :
                    i <= Len(cacheQuery[q].pins) /\ cacheQuery[q].pins[i] = k})

\* the queries that hold a pin on entry k
PinnedBy(k) == {q \in CacheQueries : k \in Elements(cacheQuery[q].pins)}

C21_Inv ==
    \A k \in CacheKeys :
        /\ cacheEntries[k].state # "absent" => cacheEntries[k].gen = factoryCalls[k]
        /\ \A q \in PinnedBy(k) :
              /\ cacheEntries[k].state # "absent"
              /\ cacheQuery[q].vals[k[1]] \in {0, cacheEntries[k].gen}
              /\ (cacheEntries[k].state = "ready" /\ cacheQuery[q].pc = "run")
                    => cacheQuery[q].vals[k[1]] = cacheEntries[k].gen

C21_Step ==
    \A k \in CacheKeys :
        /\ factoryCalls'[k] # factoryCalls[k] =>
              /\ cacheEntries[k].state = "absent"
              /\ factoryCalls'[k] = factoryCalls[k] + 1
        /\ (cacheEntries[k].state = "pending" /\ cacheEntries'[k].state = "ready") =>
              \A q \in PinnedBy(k) :
                  cacheQuery[q].pc = "wait" =>
                      /\ cacheQuery'[q].pc = "run"
                      /\ cacheQuery'[q].vals[k[1]] = factoryCalls[k]

\* C21: in each of the three caches, withEntry calls that miss on one key while its
\* factory is pending cause one factory invocation for the key (the factory is invoked
\* only for a key that has no entry, and the entry stays that of the last invocation
\* while it is in the cache), and every caller is handed the value of that invocation.
C21_MissesCoalesce == []C21_Inv /\ [][C21_Step]_vars

\* both queries wait for the one pending factory call of the result chunk of dump 1,
\* and both hold the connection and the document of the one factory call of each
C21_Witness ==
    /\ \A c \in CacheNames : factoryCalls[<<c, "1">>] = 1 /\ factoryCalls[<<c, "2">>] = 0
    /\ cacheEntries[<<"resultChunk", "1">>].state = "pending"
    /\ \A c \in CacheNames : cacheEntries[<<c, "1">>].refs = MaxQueries
    /\ \A q \in CacheQueries :
          /\ cacheQuery[q].pc = "wait"
          /\ cacheQuery[q].vals = [NoValues EXCEPT !["connection"] = 1, !["document"] = 1]

\* the entry of every pin is in its cache with a reference count above zero, and no
\* handle that a query holds or has read through is closed
C22_Inv ==
    /\ \A k \in CacheKeys :
          PinnedBy(k) # {} => cacheEntries[k].state # "absent" /\ cacheEntries[k].refs > 0
    /\ \A c \in CacheNames :
          Elements(cacheLru[c]) = {d \in CacheDumps : cacheEntries[<<c, d>>].state # "absent"}
    /\ \A q \in CacheQueries :
          /\ cacheQuery[q].used # "closed"
          /\ cacheQuery[q].vals["connection"] # 0 =>
                <<cacheQuery[q].dump, cacheQuery[q].vals["connection"]>> \notin closedHandles

\* an entry is evicted, and a handle closed, only by a step after which no query has a
\* pin on it, and only when the cache is over its capacity
C22_Step ==
    /\ \A k \in CacheKeys :
          (cacheEntries[k].state = "ready" /\ cacheEntries'[k].state = "absent") =>
              /\ PinsOn(k)' = 0
              /\ cacheEntries[k].refs <= 1
              /\ \A d \in Elements(cacheLru'[k[1]]) :
                    cacheEntries'[<<k[1], d>>].refs > 0
                       \/ cacheEntries'[<<k[1], d>>].state = "pending"
                       \/ Len(cacheLru'[k[1]]) <= CacheCapacity
    /\ \A h \in closedHandles' \ closedHandles :
          /\ cacheEntries[<<"connection", h[1]>>].state # "absent"
          /\ cacheEntries[<<"connection", h[1]>>].gen = h[2]
          /\ cacheEntries[<<"connection", h[1]>>].refs <= 1
          /\ cacheEntries'[<<"connection", h[1]>>].state = "absent"
          /\ PinsOn(<<"connection", h[1]>>)' = 0

\* C22: a cache entry with a non-zero reference count is never evicted, also when its
\* cache holds more entries than its capacity; the connection cache closes a handle only
\* when the reference count of its entry has dropped to zero, and no query reads through
\* a handle that was closed.
C22_PinnedNeverEvicted == []C22_Inv /\ [][C22_Step]_vars

\* the connection cache holds two pinned entries, one over its capacity; the handle of
\* dump 1 was closed once and opened again, and a query has read through the new one
C22_Witness ==
    /\ Len(cacheLru["connection"]) > CacheCapacity
    /\ \A d \in CacheDumps : cacheEntries[<<"connection", d>>].refs > 0
    /\ <<"1", 1>> \in closedHandles
    /\ \E q \in CacheQueries :
          /\ cacheQuery[q].dump = "1"
          /\ cacheQuery[q].vals["connection"] = 2
          /\ cacheQuery[q].used = "open"

\* the reference count of an entry is the number of pins that queries hold on it; a
\* query that has not started or has ended holds none, and no query holds pins on two
\* connection entries
C23_Inv ==
    /\ \A k \in CacheKeys : cacheEntries[k].refs = PinsOn(k)
    /\ \A q \in CacheQueries :
          /\ cacheQuery[q].pc \in {"idle", "ended"} => cacheQuery[q].pins = <<>>
          /\ Cardinality({i \in 1 .. Len(cacheQuery[q].pins) :
                             cacheQuery[q].pins[i][1] = "connection"}) <= 1
    /\ (\A q \in CacheQueries : cacheQuery[q].pc \in {"idle", "ended"}) =>
          \A k \in CacheKeys : cacheEntries[k].refs = 0

\* the step in which a query ends leaves every reference count as it is, and the query
\* has released each of its pins before
C23_Step ==
    \A q \in CacheQueries :
        (cacheQuery[q].pc # "ended" /\ cacheQuery'[q].pc = "ended") =>
            /\ cacheQuery[q].pins = <<>>
            /\ \A k \in CacheKeys : cacheEntries'[k].refs = cacheEntries[k].refs

\* C23: every pin a query acquires on a connection, document or result-chunk entry is
\* released when the query ends, be it completed, failed or cancelled: the reference
\* count of each entry is the number of pins the running queries hold, so that a query
\* leaves each count as it would be without it; and a query holds at most one pinned
\* connection entry at a time.
C23_PinsReleased == []C23_Inv /\ [][C23_Step]_vars

\* one query has completed; the other was cancelled while it waited for the document of
\* dump 2, whose factory call is still pending, and has ended with its pins released
C23_Witness ==
    /\ queryRuns = 2
    /\ cacheQuery[1].pc = "ended" /\ cacheQuery[1].outcome = "completed"
    /\ cacheQuery[2].pc = "ended" /\ cacheQuery[2].outcome = "cancelled"
    /\ cacheEntries[<<"document", "2">>].state = "pending"
    /\ cacheEntries[<<"document", "2">>].refs = 0
    /\ cacheEntries[<<"connection", "1">>].state = "ready"

\* C31 (as claimed): when a step of a convert job has thrown (import, registration or
\* rename), the error the job fails with is the error of that step, whether or not the
\* temp file exists when the catch block unlinks it.
C31_Step ==
    \A j \in JobIds :
        (pc[j] = "catch" /\ pc'[j] # "catch") => failedReason'[j] = thrown[j]

C31_StepErrorKept == [][C31_Step]_vars


\* the packages and the references registered for dump id d
RowsIn(table, d) == {p.package : p \in {q \in table : q.dump_id = d}}
RegisteredPackages(d) == RowsIn(lsif_packages, d)
RegisteredReferences(d) == RowsIn(lsif_references, d)

\* two jobs of one key have completed: the key has one row, the file of the row's id
\* holds the conversion of one of the two, the packages and references of the row are
\* those of that conversion, and none are registered for another dump of the key
C32_Inv ==
    \A j1, j2 \in JobIds :
        (/\ j1 # j2
         /\ jobState[j1] = "completed"
         /\ jobState[j2] = "completed"
         /\ KeyOf(j1) = KeyOf(j2)) =>
            /\ Cardinality(RowsOfKey(KeyOf(j1))) = 1
            /\ \A row \in RowsOfKey(KeyOf(j1)) :
                  /\ dumpFiles[row.id] # NoDump
                  /\ dumpFiles[row.id].job \in {j1, j2}
                  /\ RegisteredPackages(row.id) = PackagesOf(dumpFiles[row.id].job)
                  /\ RegisteredReferences(row.id) = ReferencesOf(dumpFiles[row.id].job)
                  /\ \A d \in DumpIds \ {row.id} :
                        d \in FilesOfKey(KeyOf(j1)) =>
                            RegisteredPackages(d) = {} /\ RegisteredReferences(d) = {}

\* the job that registers a dump is the job that writes the file of its id: the
\* registration of job j leaves one row for the key, of a new id, with the packages and
\* references of j, and a dump file is written only by the job whose registration
\* returned its id
C32_Step ==
    /\ \A j \in JobIds :
          (pc[j] = "addPackagesAndReferences" /\ pc'[j] = "rename") =>
              /\ dump'[j] = nextDumpId
              /\ \A i \in JobIds \ {j} : dump[i] # nextDumpId
              /\ RowsOfKey(KeyOf(j))' = {[id |-> nextDumpId, repository |-> jobArgs[j].repository,
                                          commit |-> jobArgs[j].commit, root |-> jobArgs[j].root]}
              /\ RowsIn(lsif_packages', nextDumpId) = PackagesOf(j)
              /\ RowsIn(lsif_references', nextDumpId) = ReferencesOf(j)
    /\ \A d \in DumpIds :
          dumpFiles'[d] # dumpFiles[d] =>
              \E j \in JobIds :
                  /\ pc[j] = "rename"
                  /\ dump[j] = d
                  /\ dumpFiles[d] = NoDump
                  /\ dumpFiles'[d] = Converted(j)

\* C32: after two convert jobs of one (repository, commit, root) have both succeeded,
\* under any interleaving of their register and rename steps, the key has one dump row,
\* and the dump file at the path of that row holds the data of the conversion whose
\* packages and references are registered.
C32_LastWriterWins == []C32_Inv /\ [][C32_Step]_vars

\* both jobs of the key have completed on their first attempt; each has written the
\* file of its own dump id
C32_Witness ==
    /\ jobState[1] = "completed" /\ jobState[2] = "completed"
    /\ KeyOf(1) = KeyOf(2)
    /\ attemptsMade[1] = 0 /\ attemptsMade[2] = 0
    /\ \E d1, d2 \in DumpIds :
          /\ d1 # d2
          /\ dumpFiles[d1] # NoDump /\ dumpFiles[d1].job = 1
          /\ dumpFiles[d2] # NoDump /\ dumpFiles[d2].job = 2

\* the job that registered first has still to rename, the job that registered after it
\* has renamed already
C32_Interleaved ==
    \E j1, j2 \in JobIds :
        /\ KeyOf(j1) = KeyOf(j2)
        /\ pc[j1] = "rename" /\ dump[j1] = 1
        /\ pc[j2] = "discoverAndUpdateCommit" /\ dump[j2] = 2
        /\ dumpFiles[2] # NoDump


\* the jobs that take a step
Acting == {j \in JobIds : pc'[j] # pc[j] \/ jobState'[j] # jobState[j]}

\* no two jobs read the same upload file, and no two running jobs hold the same dump id
C33_Inv ==
    \A j1, j2 \in Enqueued :
        j1 # j2 =>
            /\ jobArgs[j1].filename # jobArgs[j2].filename
            /\ dump[j1] # 0 => dump[j1] # dump[j2]

\* a step creates or removes only temp files of the job that takes it, changes no upload
\* file but that of the request or of the job that takes the step, and no dump file but
\* that of the id registered by the job that takes it
C33_Step ==
    /\ \A t \in (tmpFiles \ tmpFiles') \cup (tmpFiles' \ tmpFiles) :
          t[1] \in Acting /\ t[2] = attemptsMade[t[1]] + 1
    /\ \A r \in Requests :
          uploadFile'[r] # uploadFile[r] =>
              \/ reqPc'[r] # reqPc[r]
              \/ \E j \in Acting : jobArgs[j].filename = r
    /\ \A d \in DumpIds :
          dumpFiles'[d] # dumpFiles[d] => \E j \in Acting : dump[j] = d

\* C33: convert jobs that run concurrently, also for one (repository, commit, root),
\* write each to its own temp path and read each its own upload file; no step of a job,
\* its failure and cleanup included, removes or changes the temp file, the upload file or
\* the dump file of another job.
C33_JobsKeepApart == []C33_Inv /\ [][C33_Step]_vars

\* job 1 has failed an attempt and cleaned up while job 2, of the same key, is between
\* its registration and its rename: the temp file and the upload file of job 2 are there
C33_Witness ==
    /\ KeyOf(1) = KeyOf(2)
    /\ jobState[1] = "delayed" /\ attemptsMade[1] = 1
    /\ \A t \in tmpFiles : t[1] = 2
    /\ pc[2] = "rename"
    /\ <<2, 1>> \in tmpFiles
    /\ uploadFile[jobArgs[2].filename] # NoFile


\* C34 (as claimed): every upload file that exists once its request has ended is the
\* input of exactly one convert job that is waiting, active, delayed or failed; a
\* request that ended in an error leaves no upload file behind.
C34_UploadFileHasJob ==
    \A r \in Requests :
        (reqPc[r] = "done" /\ uploadFile[r] # NoFile) =>
            Cardinality({j \in JobsOf(r) :
                            jobState[j] \in {"waiting", "active", "delayed", "failed"}}) = 1


\* the migration has finished, and the dumps 1 and 2, whose repository and commit had
\* a file of the old scheme, have each a file at their id-based path
C35_Inv == (doneFile /\ migPc = "idle") => \A i \in {1, 2} : dumpFiles[i] # NoDump

\* no step replaces an id-based dump file that exists
C35_Step == \A d \in DumpIds : dumpFiles[d] # NoDump => dumpFiles'[d] = dumpFiles[d]

\* C35 (as claimed): the filename migration never replaces an id-based dump file that
\* exists, and when it has finished every dump row whose repository and commit had a
\* file of the old scheme has a file at its own id-based path, also when several dump
\* rows share the repository and commit.
C35_MigrationKeepsData == []C35_Inv /\ [][C35_Step]_vars


\* the start of the process is over: main has created the storage directories and
\* scheduled update-tips (server.ts 108-117), and ensureFilenamesAreIDs has returned with
\* the marker written and no dump row left with a file of the old name
Started ==
    /\ starts >= 1
    /\ repeatable # {}
    /\ doneFile
    /\ migPc = "idle"
    /\ \A row \in lsif_dumps : oldFiles[dbFilenameOld(row.repository, row.commit)] = NoDump

C36_Inv == serverPc = "listening" => Started

\* a request is accepted only by the listening server, and a response is written only
\* after the start is over
C36_Step ==
    /\ ((\E r \in Requests : reqPc[r] = "new" /\ reqPc'[r] # "new")
           \/ (qPc = "new" /\ qPc' # "new")) =>
          serverPc = "listening" /\ Started
    /\ ((\E r \in Requests : resp'[r] # resp[r]) \/ qResp' # qResp) => Started

\* C36: the server accepts no upload, exists or request call before main has created the
\* storage directories and scheduled the update-tips job and the filename migration has
\* finished; no query is answered while a dump has its file under the old
\* <repo>@<commit>.lsif.db name.
C36_NoRequestBeforeStart == []C36_Inv /\ [][C36_Step]_vars

\* the first start ended in a failed rename of the migration, the second start finished
\* the migration; since then an upload was accepted and a query answered
C36_Witness ==
    /\ starts = 2
    /\ faults = 1
    /\ serverPc = "listening"
    /\ qErr = NoError
    /\ qPc = "done"
    /\ qResp.status = 200
    /\ reqPc[1] = "pipeline"
    /\ \A i \in {1, 2, 3} : dumpFiles[i] # NoDump


\* the mutexes goroutine g holds
HeldBy(g) == {m \in Mutexes : mutex[m] = g}
\* goroutine g stands at a Lock() of a mutex another goroutine holds
Blocked(g) ==
    \/ goPc[g] = "reportErr" /\ mutex["multiErrMu"] # "free"
    \/ /\ g \in MergeGoroutines
       /\ goPc[g] = "loop"
       /\ goIdx[g] <= Len(searchOut[g].matches)
       /\ mutex["fileMatchesMu"] # "free"
    \/ goPc[g] = "lockResults" /\ mutex["resultsMu"] # "free"
    \/ goPc[g] = "common" /\ searchOut[g].common /\ mutex["commonMu"] # "free"
\* the positions of results that hold a file match for URI u
EntriesOf(u) ==
    {i \in DOMAIN resultsSlice : resultsSlice[i] \in Refs /\ resultsSlice[i][2] = u}
\* the URIs both symbol search and file/path search matched
BothMatch ==
    {u \in URIs : /\ u \in Elements(searchOut["symbol"].matches)
                  /\ u \in Elements(searchOut["file"].matches)}
C37_Inv ==
    /\ \A u \in URIs : Cardinality(EntriesOf(u)) <= 1
    /\ mainPc = "returned" =>
          \A u \in BothMatch :
             \E i \in EntriesOf(u) :
                /\ EntriesOf(u) = {i}
                /\ matchHeap[resultsSlice[i]].uri = u
                /\ matchHeap[resultsSlice[i]].symbols = SymbolsOf(u)
                /\ matchHeap[resultsSlice[i]].JLineMatches = LineMatchesOf(u)
    /\ (\E g \in Goroutines : goPc[g] # "done") =>
          \E g \in Goroutines : goPc[g] # "done" /\ ~Blocked(g)
C37_Step ==
    \A g \in Goroutines, m \in Mutexes :
       (mutex[m] # g /\ mutex'[m] = g) =>
          IF m = "resultsMu" THEN HeldBy(g) \subseteq {"fileMatchesMu"} ELSE HeldBy(g) = {}
\* C37: in doResults, when symbol search and file/path search both match a file URI,
\* results holds at most one file match for it at any time and, once both wait groups
\* have returned, exactly one, which carries the symbols of the symbol search and the
\* line matches of the file search, whatever the interleaving of the goroutines; a
\* goroutine takes fileMatchesMu holding no mutex and resultsMu holding at most
\* fileMatchesMu, takes the other mutexes holding none, and as long as a goroutine is
\* not done one of them is not waiting for a mutex.
C37_OneEntryPerFile == []C37_Inv /\ [][C37_Step]_vars
\* both searches matched both files, the entry of one was created by the symbol
\* goroutine and merged into by the file goroutine, the entry of the other the other
\* way round
C37_Witness ==
    /\ mainPc = "returned"
    /\ BothMatch = URIs
    /\ \E u \in URIs, w \in URIs :
          /\ u # w
          /\ \E i \in EntriesOf(u) : resultsSlice[i][1] = "symbol"
          /\ \E j \in EntriesOf(w) : resultsSlice[j][1] = "file"
          /\ matchHeap[<<"symbol", u>>].JLineMatches = LineMatchesOf(u)
          /\ matchHeap[<<"file", w>>].symbols = SymbolsOf(w)


\* v is a search that found nothing while repositories were cloning or timed out
NothingYet(v) == ~v.err /\ v.count = 0 /\ (v.cloning > 0 \/ v.timedout > 0)
C38_Inv ==
    /\ stats.searches <= 7
    /\ \A q \in StatsQueries :
          searchResultsStatsCache[q] # NoStats => searchResultsStatsCache[q].count > 0
    /\ (stats.pc = "returned" /\ stats.ret.err = "cloning") => stats.searches = 7
C38_Step ==
    /\ (stats.searches >= 1 /\ stats'.searches = stats.searches + 1) => NothingYet(stats.v)
    /\ (stats.pc = "check" /\ stats.searches = 7 /\ NothingYet(stats.v) /\ stats' # stats) =>
          stats'.pc = "returned" /\ stats'.ret.err = "cloning"
    /\ \A q \in StatsQueries :
          (/\ searchResultsStatsCache'[q] # searchResultsStatsCache[q]
           /\ searchResultsStatsCache'[q] # NoStats) =>
             /\ q = stats.query
             /\ ~stats.v.err
             /\ stats.v.count > 0
             /\ searchResultsStatsCache'[q] = StatsOf(stats.v)
             /\ stats'.ret.err = "none"
\* C38: every call of searchResolver.Stats returns; it searches again only after a search
\* that found nothing while a repository was cloning or timed out, makes at most 7
\* searches and returns an error after the seventh such search; what it stores in the
\* stats cache are the stats of a search without error and with a result count above zero.
C38_StatsTerminates ==
    /\ []C38_Inv
    /\ [][C38_Step]_vars
    /\ (stats.pc \notin {"idle", "returned"}) ~> (stats.pc = "returned")
\* a call gave up after seven searches that found nothing, the cache left as it was
C38_Witness ==
    /\ stats.pc = "returned"
    /\ stats.ret.err = "cloning"
    /\ stats.searches = 7
    /\ stats.attempts = 6
    /\ searchResultsStatsCache[stats.query] = NoStats

====
